---- MODULE Spec2Model ----
(***************************************************************************)
(* Local persistence and progress tracking of the course management app:   *)
(* the HTML sanitizer, the course store (redux slice + localStorage), the  *)
(* data migration engine with its backups, and the progress ledger.        *)
(*                                                                         *)
(* Text is a sequence of characters over a small alphabet; "&lt;" and      *)
(* "&gt;" stand for the two HTML entities, each one character of the model.*)
(***************************************************************************)
EXTENDS Integers, Sequences, FiniteSets, TLC

----------------------------------------------------------------------------
(* Bounds *)

MaxClock == 2      \* Date.now() takes the values 1..MaxClock
MaxStamp == 4      \* the same, where only backups are studied
MaxCourses == 1    \* the catalog holds at most MaxCourses courses
MaxKeep == 2       \* cleanupOldBackups is called directly with 0..MaxKeep
MaxDay == 2        \* calendar days 1..MaxDay
MaxStreakDay == 4  \* calendar days 1..MaxStreakDay where only the streak is studied
MaxFormClock == 3  \* Date.now() takes the values 1..MaxFormClock while the form is edited
MaxFormSections == 2  \* the form holds at most MaxFormSections sections
MaxFormLessons == 2   \* a section of the form holds at most MaxFormLessons lessons
MaxLen == 3        \* a text given to stripHtmlTags on its own has 0..MaxLen characters
MaxStatCourses == 2 \* calculateCompletionStats is given 0..MaxStatCourses courses
MaxSections == 2   \* a course given to calculateCourseProgress has 0..MaxSections sections

----------------------------------------------------------------------------
(* Program constants *)

CURRENT_MIGRATION_VERSION == "1.0.0"
AutoKeepCount == 3

----------------------------------------------------------------------------
(* State *)

VARIABLES
  localStorage,  \* the browser store: one field per key (backups: one per timestamp)
  domOK,         \* the runtime has a working document (DOM parser)
  clock,         \* Date.now()
  alive,         \* the page is loaded and its scripts run
  state,         \* the redux course slice: the in-memory catalog
  last,          \* the last course-store operation, its arguments and results
  today,         \* the current calendar day
  ctx,           \* ProgressProvider state: progress, bookmarks, learningStreak
  lastL,         \* the last ledger operation, its arguments and results
  ld,            \* LessonDetail component: mounted, its route's lesson, its progress state
  form,          \* CourseForm state: courseData.sections
  dst,           \* the day on which local clocks spring forward (23 hours), 0: none
  calc,          \* the last calculateCourseProgress call: course, map read, result
  strip,         \* a text given to stripHtmlTags and what came back
  bundle,        \* the object the last exportProgressData call returned
  ctxB,          \* the ProgressContext state of a second tab on the same store
  stats,         \* the last calculateCompletionStats call: its arguments and result
  view           \* the course form and the courses list: mounted or not, timers

vars == <<localStorage, domOK, clock, alive, state, last, today, ctx, lastL,
          ld, form, dst, calc, strip, bundle, ctxB, stats, view>>

\* the variables of the studies that stand apart from the stores
aux == <<strip, bundle, ctxB, stats>>

----------------------------------------------------------------------------
(* Sanitizer *)

Letters == {"p", "H"}

RECURSIVE FirstGt(_, _)
\* index of the first ">" at or after position i, 0 when there is none
FirstGt(s, i) ==
  IF i > Len(s) THEN 0
  ELSE IF s[i] = ">" THEN i
  ELSE FirstGt(s, i + 1)

RECURSIVE DomText(_, _)
\* tempDiv.innerHTML = s; tempDiv.textContent, reading s from position i:
\* the HTML tokenizer drops start tags, end tags and bogus comments, keeps
\* a "<" that opens no tag, and decodes character references
DomText(s, i) ==
  IF i > Len(s) THEN <<>>
  ELSE IF s[i] = "<" THEN
    IF i + 1 <= Len(s) /\ s[i + 1] \in Letters THEN
      \* start tag: runs to the next ">"; dropped whole at end of input
      LET j == FirstGt(s, i + 1) IN IF j = 0 THEN <<>> ELSE DomText(s, j + 1)
    ELSE IF i + 1 <= Len(s) /\ s[i + 1] = "/" THEN
      IF i + 2 > Len(s) THEN <<"<", "/">>
      ELSE IF s[i + 2] = ">" THEN DomText(s, i + 3)
      ELSE \* end tag, or bogus comment: both run to the next ">"
        LET j == FirstGt(s, i + 2) IN IF j = 0 THEN <<>> ELSE DomText(s, j + 1)
    ELSE <<"<">> \o DomText(s, i + 1)
  ELSE IF s[i] = "&lt;" THEN <<"<">> \o DomText(s, i + 1)
  ELSE IF s[i] = "&gt;" THEN <<">">> \o DomText(s, i + 1)
  ELSE <<s[i]>> \o DomText(s, i + 1)

RECURSIVE CollapseSpaces(_)
\* .replace(/\s+/g, ' ')
CollapseSpaces(s) ==
  IF Len(s) <= 1 THEN s
  ELSE IF s[1] = " " /\ s[2] = " " THEN CollapseSpaces(Tail(s))
  ELSE <<s[1]>> \o CollapseSpaces(Tail(s))

\* .trim(), applied to text whose runs of spaces are already single
Trim(s) ==
  LET a == IF Len(s) > 0 /\ s[1] = " " THEN Tail(s) ELSE s
  IN IF Len(a) > 0 /\ a[Len(a)] = " " THEN SubSeq(a, 1, Len(a) - 1) ELSE a

RECURSIVE RegexStripTags(_, _)
\* .replace(/<[^>]*>/g, '') reading s from position i
RegexStripTags(s, i) ==
  IF i > Len(s) THEN <<>>
  ELSE IF s[i] = "<" /\ FirstGt(s, i + 1) # 0
    THEN RegexStripTags(s, FirstGt(s, i + 1) + 1)
  ELSE <<s[i]>> \o RegexStripTags(s, i + 1)

\* .replace(/&lt;/g, '<').replace(/&gt;/g, '>')
DecodeEntities(s) ==
  [i \in 1..Len(s) |->
     IF s[i] = "&lt;" THEN "<" ELSE IF s[i] = "&gt;" THEN ">" ELSE s[i]]

\* the catch branch of stripHtmlTags
stripHtmlTagsFallback(s) ==
  Trim(CollapseSpaces(DecodeEntities(RegexStripTags(s, 1))))

\* domOK: document.createElement / innerHTML work (a browser); otherwise the
\* try block throws and the regex fallback runs
stripHtmlTags(s) ==
  IF s = <<>> THEN <<>>
  ELSE IF domOK THEN Trim(CollapseSpaces(DomText(s, 1)))
  ELSE stripHtmlTagsFallback(s)

\* the characters of the model's texts
Chars == {"<", ">", "/", "p", "H", " ", "&lt;", "&gt;"}

\* /<[^>]*>/.test(content)
containsHtmlTags(s) ==
  \E i \in 1..Len(s) : s[i] = "<" /\ FirstGt(s, i + 1) # 0

sanitizeLessonSkip(l) == l

sanitizeLesson(l) ==
  [l EXCEPT !.content = stripHtmlTags(l.content)]

sanitizeSection(sec) ==
  [sec EXCEPT !.description = stripHtmlTags(sec.description),
              !.lessons = [k \in 1..Len(sec.lessons) |->
                             sanitizeLesson(sec.lessons[k])]]

\* a course without a description keeps none: if (sanitizedCourse.description)
sanitizeCourseForStorage(c) ==
  IF "description" \in DOMAIN c
    THEN [c EXCEPT !.description = stripHtmlTags(c.description),
                   !.sections = [k \in 1..Len(c.sections) |->
                                   sanitizeSection(c.sections[k])]]
  ELSE [c EXCEPT !.sections = [k \in 1..Len(c.sections) |->
                                 sanitizeSection(c.sections[k])]]

\* the argument is an array here; callers test Array.isArray themselves
sanitizeCoursesForStorage(cs) ==
  [k \in 1..Len(cs) |-> sanitizeCourseForStorage(cs[k])]

----------------------------------------------------------------------------
(* Texts and courses the model draws its inputs from *)

PlainText == <<"H">>
TagText == <<"<", "p", ">", "H", "<", "/", "p", ">">>
EntText == <<"&lt;", "p", "&gt;", "H">>

\* markup in every sanitized field: description, section description, content
CourseA ==
  [id |-> "c1", description |-> TagText,
   sections |-> << [id |-> "s1", description |-> TagText,
                    lessons |-> << [id |-> "L1", content |-> TagText] >>] >>]
\* a description holding HTML-encoded entities
CourseC == [id |-> "c1", description |-> EntText, sections |-> <<>>]
CourseP == [id |-> "c2", description |-> PlainText, sections |-> <<>>]

\* a course object without a description property
CourseU == [id |-> "c2", sections |-> <<>>]

CourseInputs == {CourseC, CourseP}
\* the payloads dispatched where the catalog alone is studied
CrudInputs == {CourseP, CourseU, [CourseP EXCEPT !.id = "c1"]}
CourseIds == {"c1", "c2"}

----------------------------------------------------------------------------
(* localStorage values: what getItem returns for a key *)

NoVal == [kind |-> "none", val |-> <<>>]      \* key absent: null
TextVal == [kind |-> "text", val |-> <<>>]    \* 'invalid json'
ObjVal == [kind |-> "object", val |-> <<>>]   \* JSON that is not an array
\* JSON.stringify of an array of courses; JSON.parse gives val back
Arr(cs) == [kind |-> "array", val |-> cs]

NoMarker == "none"
NoBackups == [t \in {} |-> NoVal]

Writes == {"none", "backup", "courses", "marker"}

----------------------------------------------------------------------------
(* Migration engine: operators over the store S *)

isMigrationNeededAlways(S) == TRUE

isMigrationNeeded(S) == S.version # CURRENT_MIGRATION_VERSION

PutBackup(b, now, v) ==
  [t \in (DOMAIN b) \cup {now} |-> IF t = now THEN v ELSE b[t]]

\* `at` names the one storage write that the substrate rejects (setItem
\* throws), "none" when every write is accepted; hit says it was reached
migrateMarkerFirst(S, createBackup, now, at) ==
  LET stored == S.courses
      M == [S EXCEPT !.version = CURRENT_MIGRATION_VERSION]
  IN
  IF stored.kind = "none" THEN
    IF at = "marker" THEN [store |-> S, success |-> FALSE, hit |-> TRUE]
    ELSE [store |-> M, success |-> TRUE, hit |-> FALSE]
  ELSE IF at = "marker" THEN [store |-> S, success |-> FALSE, hit |-> TRUE]
  ELSE IF createBackup /\ at = "backup"
    THEN [store |-> M, success |-> FALSE, hit |-> TRUE]
  ELSE
    LET S1 == IF createBackup
              THEN [M EXCEPT !.backups = PutBackup(@, now, stored)] ELSE M
    IN
    IF stored.kind # "array" THEN [store |-> S1, success |-> FALSE, hit |-> FALSE]
    ELSE IF at = "courses" THEN [store |-> S1, success |-> FALSE, hit |-> TRUE]
    ELSE [store |-> [S1 EXCEPT !.courses =
                       Arr(sanitizeCoursesForStorage(stored.val))],
          success |-> TRUE, hit |-> FALSE]

migrateExistingData(S, createBackup, now, at) ==
  LET stored == S.courses IN
  IF stored.kind = "none" THEN
    \* no data to migrate, just set the migration version
    IF at = "marker" THEN [store |-> S, success |-> FALSE, hit |-> TRUE]
    ELSE [store |-> [S EXCEPT !.version = CURRENT_MIGRATION_VERSION],
          success |-> TRUE, hit |-> FALSE]
  ELSE IF createBackup /\ at = "backup"
    THEN [store |-> S, success |-> FALSE, hit |-> TRUE]
  ELSE
    LET S1 == IF createBackup
              THEN [S EXCEPT !.backups = PutBackup(@, now, stored)] ELSE S
    IN
    \* JSON.parse throws on 'invalid json'; a non-array is thrown explicitly
    IF stored.kind # "array" THEN [store |-> S1, success |-> FALSE, hit |-> FALSE]
    ELSE IF at = "courses" THEN [store |-> S1, success |-> FALSE, hit |-> TRUE]
    ELSE
      LET S2 == [S1 EXCEPT !.courses =
                   Arr(sanitizeCoursesForStorage(stored.val))]
      IN
      IF at = "marker" THEN [store |-> S2, success |-> FALSE, hit |-> TRUE]
      ELSE [store |-> [S2 EXCEPT !.version = CURRENT_MIGRATION_VERSION],
            success |-> TRUE, hit |-> FALSE]

RECURSIVE SortDesc(_)
\* .sort((a, b) => b.timestamp - a.timestamp)
SortDesc(T) ==
  IF T = {} THEN <<>>
  ELSE LET m == CHOOSE x \in T : \A y \in T : y <= x
       IN <<m>> \o SortDesc(T \ {m})

\* timestamps of the backups listBackups returns, newest first; a backup
\* whose payload JSON.parse rejects is skipped
listBackups(S) ==
  SortDesc({t \in DOMAIN S.backups : S.backups[t].kind # "text"})

cleanupOldBackups(S, keepCount) ==
  LET backups == listBackups(S) IN
  IF Len(backups) <= keepCount THEN S
  ELSE
    LET toRemove == {backups[k] : k \in (keepCount + 1)..Len(backups)}
    IN [S EXCEPT !.backups =
          [t \in (DOMAIN S.backups) \ toRemove |-> S.backups[t]]]

runAutoMigration(S, now, at) ==
  IF ~isMigrationNeeded(S)
  THEN [store |-> S, success |-> TRUE, hit |-> FALSE, migrationRun |-> FALSE]
  ELSE
    LET result == migrateExistingData(S, TRUE, now, at) IN
    [store |-> IF result.success
               THEN cleanupOldBackups(result.store, AutoKeepCount)
               ELSE result.store,
     success |-> result.success, hit |-> result.hit, migrationRun |-> TRUE]

restoreKeepMarker(S, backupKey, at) ==
  IF backupKey \notin DOMAIN S.backups
    THEN [store |-> S, success |-> FALSE, hit |-> FALSE]
  ELSE IF S.backups[backupKey].kind # "array"
    THEN [store |-> S, success |-> FALSE, hit |-> FALSE]
  ELSE IF at = "courses" THEN [store |-> S, success |-> FALSE, hit |-> TRUE]
  ELSE IF at = "marker"
    THEN [store |-> [S EXCEPT !.courses = S.backups[backupKey]],
          success |-> FALSE, hit |-> TRUE]
  ELSE [store |-> [S EXCEPT !.courses = S.backups[backupKey]],
        success |-> TRUE, hit |-> FALSE]

restoreMarkerFirst(S, backupKey, at) ==
  IF backupKey \notin DOMAIN S.backups
    THEN [store |-> [S EXCEPT !.version = NoMarker], success |-> FALSE,
          hit |-> FALSE]
  ELSE IF S.backups[backupKey].kind # "array"
    THEN [store |-> [S EXCEPT !.version = NoMarker], success |-> FALSE,
          hit |-> FALSE]
  ELSE IF at = "courses" THEN [store |-> S, success |-> FALSE, hit |-> TRUE]
  ELSE IF at = "marker"
    THEN [store |-> [S EXCEPT !.courses = S.backups[backupKey]],
          success |-> FALSE, hit |-> TRUE]
  ELSE [store |-> [S EXCEPT !.courses = S.backups[backupKey],
                            !.version = NoMarker],
        success |-> TRUE, hit |-> FALSE]

restoreFromBackup(S, backupKey, at) ==
  IF backupKey \notin DOMAIN S.backups
    THEN [store |-> S, success |-> FALSE, hit |-> FALSE]
  ELSE IF S.backups[backupKey].kind # "array"
    THEN [store |-> S, success |-> FALSE, hit |-> FALSE]
  ELSE IF at = "courses" THEN [store |-> S, success |-> FALSE, hit |-> TRUE]
  ELSE IF at = "marker"
    \* stopped between setItem(courses) and removeItem(marker)
    THEN [store |-> [S EXCEPT !.courses = S.backups[backupKey]],
          success |-> FALSE, hit |-> TRUE]
  ELSE [store |-> [S EXCEPT !.courses = S.backups[backupKey],
                            !.version = NoMarker],
        success |-> TRUE, hit |-> FALSE]

----------------------------------------------------------------------------
(* Course store: load and save *)

\* the filter of loadCoursesFromStorage: id, title and description are
\* strings (the courses of the model differ in having a description)
isValid(course) == "description" \in DOMAIN course

\* the part of loadCoursesFromStorage after runAutoMigration
readCourses(S) ==
  IF S.courses.kind = "text"
    \* JSON.parse throws: the catch block removes the corrupted key
    THEN [store |-> [S EXCEPT !.courses = NoVal], ret |-> <<>>]
  ELSE IF S.courses.kind = "array"
    THEN [store |-> S, ret |-> SelectSeq(S.courses.val, isValid)]
  ELSE [store |-> S, ret |-> <<>>]

loadCoursesFromStorage(S, now, at) ==
  LET m == runAutoMigration(S, now, at)
      r == readCourses(m.store)
  IN [store |-> r.store, ret |-> r.ret, mid |-> m.store,
      success |-> m.success, hit |-> m.hit, migrationRun |-> m.migrationRun]

saveCoursesToStorageEvict(S, courses, at) ==
  IF at = "courses" THEN [store |-> [S EXCEPT !.backups = NoBackups], ok |-> FALSE]
  ELSE [store |-> [S EXCEPT !.courses =
                     Arr(sanitizeCoursesForStorage(courses))],
        ok |-> TRUE]

\* courses is an array here; `at = "courses"` rejects the write
saveCoursesToStorage(S, courses, at) ==
  IF at = "courses" THEN [store |-> S, ok |-> FALSE]
  ELSE [store |-> [S EXCEPT !.courses =
                     Arr(sanitizeCoursesForStorage(courses))],
        ok |-> TRUE]

\* the whole function: anything that is not an array is refused first
saveCoursesToStorageOf(S, payload, isArray, at) ==
  IF ~isArray THEN [store |-> S, ok |-> FALSE]
  ELSE saveCoursesToStorage(S, payload, at)

----------------------------------------------------------------------------
(* Progress ledger values *)

Lessons == {"L1", "L2"}

\* a lesson's entry in the progress map; present = FALSE: no such key
NoRec == [present |-> FALSE, completed |-> FALSE, note |-> "none"]
EmptyProgress == [l \in Lessons |-> NoRec]
\* hasDates = FALSE: the object has no activityDates key
NoStreak == [currentStreak |-> 0, longestStreak |-> 0, lastActivity |-> 0,
             activityDates |-> <<>>, hasDates |-> TRUE]
\* { currentStreak: 0, longestStreak: 0, lastActivity: null }
StreakFallback == [NoStreak EXCEPT !.hasDates = FALSE]

----------------------------------------------------------------------------
(* Progress ledger: operators over the store S.  completedAt is left out of
   the records; a calendar day is an integer *)

\* the additionalData argument: nothing, {note: "n1"}, {completed: false}
NoMeta == [completed |-> "unset", note |-> "none"]
Metas == {NoMeta, [completed |-> "unset", note |-> "n1"],
          [completed |-> "false", note |-> "none"]}

\* { completed: true, completedAt: ..., ...additionalData }
NewRec(meta) ==
  [present |-> TRUE, completed |-> meta.completed # "false", note |-> meta.note]

loadProgressFromStorage(S) ==
  IF S.course_progress.kind = "map" THEN S.course_progress.val
  ELSE EmptyProgress

\* rej: setItem throws and the catch block returns false
saveProgressToStorage(S, progress, rej) ==
  IF rej THEN [store |-> S, ok |-> FALSE]
  ELSE [store |-> [S EXCEPT !.course_progress = [kind |-> "map", val |-> progress]],
        ok |-> TRUE]

loadBookmarkedCourses(S) ==
  IF S.course_bookmarks.kind = "list" THEN S.course_bookmarks.val ELSE <<>>

saveBookmarkedCourses(S, bookmarks, rej) ==
  IF rej THEN [store |-> S, ok |-> FALSE]
  ELSE [store |-> [S EXCEPT !.course_bookmarks = [kind |-> "list", val |-> bookmarks]],
        ok |-> TRUE]

getLearningStreak(S) ==
  IF S.learning_streak.kind \in {"rec", "partial"} THEN S.learning_streak.val
  ELSE IF S.learning_streak.kind = "text" THEN StreakFallback
  ELSE NoStreak

Range(s) == {s[i] : i \in 1..Len(s)}

RECURSIVE SortDatesDesc(_)
\* .sort((a, b) => b - a)
SortDatesDesc(s) ==
  IF s = <<>> THEN <<>>
  ELSE LET i == CHOOSE k \in 1..Len(s) : \A j \in 1..Len(s) : s[j] <= s[k]
       IN <<s[i]>> \o SortDatesDesc(SubSeq(s, 1, i - 1) \o SubSeq(s, i + 1, Len(s)))

\* new Date(date) of a toDateString(): local midnight of the day, in hours;
\* the days after the spring-forward day start one hour early
LocalMidnight(day) == 24 * day - (IF dst # 0 /\ day > dst THEN 1 ELSE 0)

\* Math.floor((a - b) / (1000 * 60 * 60 * 24)) of two local midnights
DayDiff(a, b) == (LocalMidnight(a) - LocalMidnight(b)) \div 24

RECURSIVE StreakFrom(_, _)
\* the loop over sortedDates from index i: counts while dayDiff === 1
StreakFrom(sorted, i) ==
  IF i > Len(sorted) THEN 0
  ELSE IF DayDiff(sorted[i - 1], sorted[i]) = 1
    THEN 1 + StreakFrom(sorted, i + 1)
  ELSE 0

updateLearningStreakNoCheck(S, day, rej) ==
  LET streakData == getLearningStreak(S)
      dates == Append(streakData.activityDates, day)
      currentStreak == 1 + StreakFrom(SortDatesDesc(dates), 2)
      new == [currentStreak |-> currentStreak,
              longestStreak |-> IF streakData.longestStreak > currentStreak
                                THEN streakData.longestStreak ELSE currentStreak,
              lastActivity |-> day, activityDates |-> dates,
                hasDates |-> TRUE]
  IN
  IF S.learning_streak.kind \in {"text", "partial"} \/ rej
    THEN [store |-> S, ret |-> StreakFallback]
  ELSE [store |-> [S EXCEPT !.learning_streak = [kind |-> "rec", val |-> new]],
        ret |-> new]

\* a stored value that is not JSON ("text") or has no activityDates
\* ("partial") makes the try block throw before anything is written
updateLearningStreak(S, day, rej) ==
  LET streakData == getLearningStreak(S) IN
  IF S.learning_streak.kind \in {"text", "partial"}
    THEN [store |-> S, ret |-> StreakFallback]
  ELSE IF day \in Range(streakData.activityDates)
    THEN [store |-> S, ret |-> streakData]
  ELSE
    LET dates == Append(streakData.activityDates, day)
        currentStreak == 1 + StreakFrom(SortDatesDesc(dates), 2)
        new == [currentStreak |-> currentStreak,
                longestStreak |-> IF streakData.longestStreak > currentStreak
                                  THEN streakData.longestStreak ELSE currentStreak,
                lastActivity |-> day, activityDates |-> dates,
                hasDates |-> TRUE]
    IN IF rej THEN [store |-> S, ret |-> StreakFallback]
       ELSE [store |-> [S EXCEPT !.learning_streak = [kind |-> "rec", val |-> new]],
             ret |-> new]

\* rejS, rejP: the streak write, the progress write is rejected
markLessonCompleted(S, lessonId, meta, day, rejS, rejP) ==
  LET progress == [loadProgressFromStorage(S) EXCEPT ![lessonId] = NewRec(meta)]
      S1 == updateLearningStreak(S, day, rejS).store
  IN saveProgressToStorage(S1, progress, rejP)

markLessonIncomplete(S, lessonId, rejP) ==
  LET progress == [loadProgressFromStorage(S) EXCEPT ![lessonId] = NoRec]
  IN saveProgressToStorage(S, progress, rejP)

getLessonProgress(S, lessonId) == loadProgressFromStorage(S)[lessonId]

\* ret is the returned boolean; the results of the two mark calls are dropped
toggleLessonCompletion(S, lessonId, meta, day, rejS, rejP) ==
  LET currentProgress == getLessonProgress(S, lessonId) IN
  IF currentProgress.present /\ currentProgress.completed
    THEN [store |-> markLessonIncomplete(S, lessonId, rejP).store, ret |-> "false"]
  ELSE [store |-> markLessonCompleted(S, lessonId, meta, day, rejS, rejP).store,
        ret |-> "true"]

toggleCourseBookmark(S, courseId, rej) ==
  LET bookmarks == loadBookmarkedCourses(S) IN
  IF courseId \in Range(bookmarks)
    THEN [store |-> saveBookmarkedCourses(
                      S, SelectSeq(bookmarks, LAMBDA id : id # courseId), rej).store,
          ret |-> "false"]
  ELSE [store |-> saveBookmarkedCourses(S, Append(bookmarks, courseId), rej).store,
        ret |-> "true"]

\* what a load function returned, for the operations that are loads
NoLoad == [progress |-> EmptyProgress, bookmarks |-> <<>>]

\* the stored ledger as its readers see it
Ledger(S) ==
  [progress |-> loadProgressFromStorage(S),
   bookmarks |-> loadBookmarkedCourses(S),
   streak |-> getLearningStreak(S)]

----------------------------------------------------------------------------
(* Progress statistics *)

\* a section as calculateCourseProgress reads it: has = FALSE when the section
\* has no lessons property
SectionShapes ==
  {[has |-> FALSE, lessons |-> <<>>], [has |-> TRUE, lessons |-> <<>>],
   [has |-> TRUE, lessons |-> <<"L1">>], [has |-> TRUE, lessons |-> <<"L2">>],
   [has |-> TRUE, lessons |-> <<"L1", "L2">>]}

\* has = FALSE: the course is null or has no sections property
NoCourse == [has |-> FALSE, sections |-> <<>>]
ProgressCourses ==
  {NoCourse} \cup
  {[has |-> TRUE, sections |-> ss] :
     ss \in UNION {[1..n -> SectionShapes] : n \in 0..MaxSections}}

ZeroProgress ==
  [totalLessons |-> 0, completedLessons |-> 0, completionPercentage |-> 0,
   completedSections |-> 0, totalSections |-> 0]

\* Math.round of the non-negative quotient a / b: floor(a / b + 1/2)
MathRound(a, b) == (2 * a + b) \div (2 * b)

\* lessonProgress && lessonProgress.completed
IsCompleted(progress, lessonId) ==
  progress[lessonId].present /\ progress[lessonId].completed

RECURSIVE LessonsLoop(_, _, _)
\* section.lessons.forEach from index j: the increment of sectionCompleted
LessonsLoop(progress, lessons, j) ==
  IF j > Len(lessons) THEN 0
  ELSE (IF IsCompleted(progress, lessons[j]) THEN 1 ELSE 0)
       + LessonsLoop(progress, lessons, j + 1)

RECURSIVE SectionsLoop(_, _, _)
\* course.sections.forEach from index i: the three counters
SectionsLoop(progress, sections, i) ==
  IF i > Len(sections) THEN [total |-> 0, completed |-> 0, sections |-> 0]
  ELSE
    LET rest == SectionsLoop(progress, sections, i + 1)
        section == sections[i]
        sectionLessons == Len(section.lessons)
        sectionCompleted == LessonsLoop(progress, section.lessons, 1)
    IN
    IF ~section.has THEN rest
    ELSE [total |-> rest.total + sectionLessons,
          completed |-> rest.completed + sectionCompleted,
          sections |-> rest.sections
             + (IF sectionLessons > 0 /\ sectionCompleted = sectionLessons
                  THEN 1 ELSE 0)]

\* the computation both implementations share; progress is the map read
progressOf(progress, course) ==
  IF ~course.has THEN ZeroProgress
  ELSE
    LET n == SectionsLoop(progress, course.sections, 1) IN
    [totalLessons |-> n.total,
     completedLessons |-> n.completed,
     completionPercentage |->
       IF n.total > 0 THEN MathRound(n.completed * 100, n.total) ELSE 0,
     completedSections |-> n.sections,
     totalSections |-> Len(course.sections)]

calculateCourseProgress(S, course) ==
  progressOf(loadProgressFromStorage(S), course)

----------------------------------------------------------------------------
(* Completion statistics of the analytics *)

ZeroStats ==
  [totalProgress |-> 0, averageCompletion |-> 0, completedCourses |-> 0,
   inProgressCourses |-> 0, courseProgress |-> <<>>]

\* the courses of the catalog the statistics are taken of; the id of a course
\* is its place in the list
StatCourses ==
  {NoCourse,
   [has |-> TRUE, sections |-> <<>>],
   [has |-> TRUE, sections |-> <<[has |-> TRUE, lessons |-> <<"L1">>]>>],
   [has |-> TRUE, sections |-> <<[has |-> TRUE, lessons |-> <<"L1", "L2">>]>>],
   [has |-> TRUE, sections |-> <<[has |-> TRUE, lessons |-> <<"L1", "L2">>],
                                 [has |-> TRUE, lessons |-> <<"L1">>]>>],
   [has |-> TRUE, sections |-> <<[has |-> FALSE, lessons |-> <<>>],
                                 [has |-> TRUE, lessons |-> <<"L2">>]>>]}

StatLists == UNION {[1..n -> StatCourses] : n \in 0..MaxStatCourses}

RECURSIVE TotalLessonsOf(_, _)
\* course.sections.reduce((sum, section) => sum + (section.lessons ? ... : 0), 0)
TotalLessonsOf(sections, i) ==
  IF i > Len(sections) THEN 0
  ELSE (IF sections[i].has THEN Len(sections[i].lessons) ELSE 0)
       + TotalLessonsOf(sections, i + 1)

RECURSIVE CompletedLessonsOf(_, _, _)
\* the two nested forEach loops that count completedLessons
CompletedLessonsOf(progressData, sections, i) ==
  IF i > Len(sections) THEN 0
  ELSE (IF sections[i].has THEN LessonsLoop(progressData, sections[i].lessons, 1)
        ELSE 0)
       + CompletedLessonsOf(progressData, sections, i + 1)

courseEntryFloor(progressData, course) ==
  LET totalLessons == IF course.has THEN TotalLessonsOf(course.sections, 1) ELSE 0
      completedLessons == CompletedLessonsOf(progressData, course.sections, 1)
  IN
  IF totalLessons = 0
    THEN [completedLessons |-> 0, totalLessons |-> 0, completionPercentage |-> 0]
  ELSE [completedLessons |-> completedLessons, totalLessons |-> totalLessons,
        completionPercentage |-> (completedLessons * 100) \div totalLessons]

\* courseProgress[courseId] of one course
courseEntry(progressData, course) ==
  LET totalLessons == IF course.has THEN TotalLessonsOf(course.sections, 1) ELSE 0
      completedLessons == CompletedLessonsOf(progressData, course.sections, 1)
  IN
  IF totalLessons = 0
    THEN [completedLessons |-> 0, totalLessons |-> 0, completionPercentage |-> 0]
  ELSE [completedLessons |-> completedLessons, totalLessons |-> totalLessons,
        completionPercentage |-> MathRound(completedLessons * 100, totalLessons)]

RECURSIVE StatTotals(_, _)
\* the counters after the forEach over the percentages from index i
StatTotals(percentages, i) ==
  IF i > Len(percentages)
    THEN [total |-> 0, completed |-> 0, inProgress |-> 0]
  ELSE
    LET rest == StatTotals(percentages, i + 1)
        completionPercentage == percentages[i]
    IN [total |-> rest.total + completionPercentage,
        completed |-> rest.completed
                        + (IF completionPercentage = 100 THEN 1 ELSE 0),
        inProgress |-> rest.inProgress
                         + (IF completionPercentage # 100 /\ completionPercentage > 0
                            THEN 1 ELSE 0)]

calculateCompletionStats(courses, progressData) ==
  IF Len(courses) = 0 THEN ZeroStats
  ELSE
    LET courseProgress == [i \in 1..Len(courses) |->
                             courseEntry(progressData, courses[i])]
        t == StatTotals([i \in 1..Len(courses) |->
                           courseProgress[i].completionPercentage], 1)
    IN [totalProgress |-> t.total,
        averageCompletion |-> MathRound(t.total, Len(courses)),
        completedCourses |-> t.completed,
        inProgressCourses |-> t.inProgress,
        courseProgress |-> courseProgress]

\* the completionStats block of the dashboard: the percentages come from
\* getAllCoursesProgress of the provider, the other entries are not taken over
dashboardCompletionStats(courses, progress) ==
  IF Len(courses) = 0 THEN ZeroStats
  ELSE
    LET coursesProgress == [i \in 1..Len(courses) |-> progressOf(progress, courses[i])]
        t == StatTotals([i \in 1..Len(courses) |->
                           coursesProgress[i].completionPercentage], 1)
    IN [totalProgress |-> t.total,
        averageCompletion |-> MathRound(t.total, Len(courses)),
        completedCourses |-> t.completed,
        inProgressCourses |-> t.inProgress,
        courseProgress |->
          [i \in 1..Len(courses) |->
             [completedLessons |-> coursesProgress[i].completedLessons,
              totalLessons |-> coursesProgress[i].totalLessons,
              completionPercentage |-> coursesProgress[i].completionPercentage]]]

----------------------------------------------------------------------------
(* Initial state: a store written by an earlier version of the app (or an
   empty one), before the page is loaded for the first time *)

InitPayloads == {NoVal, TextVal, ObjVal, Arr(<<CourseA>>)}

InitStore(p) ==
  [courses |-> p, version |-> NoMarker, backups |-> NoBackups,
   course_progress |-> [kind |-> "none", val |-> EmptyProgress],
   course_progress_c1 |-> [kind |-> "none", val |-> EmptyProgress],
   course_draft_new |-> [kind |-> "none", val |-> <<>>],
   course_bookmarks |-> [kind |-> "none", val |-> <<>>],
   learning_streak |-> [kind |-> "none", val |-> NoStreak]]

\* the record of an operation: r is what it returned, S the store it started
\* from; autoChanged: its runAutoMigration part wrote to the store
Op(name, r, S, arg, crash) ==
  [op |-> name, success |-> r.success, migrationRun |-> r.migrationRun,
   crashed |-> crash, rejected |-> r.hit, arg |-> arg, ret |-> r.ret,
   autoChanged |-> name \in {"load", "auto", "test"} /\ r.mid # S,
   afterRestore |-> last.op = "restore" /\ last.success,
   autoDone |-> IF name = "restore" THEN last.autoDone /\ ~r.success
                ELSE last.autoDone
                     \/ (name \in {"load", "auto", "test"} /\ r.success /\ ~crash)]

\* a timer handle: what setTimeout returned
NoTimer == [kind |-> "none", arg |-> ""]
AutoSaveTimer == [kind |-> "autosave", arg |-> ""]
IndicatorTimer == [kind |-> "indicator", arg |-> ""]
LoadingTimer == [kind |-> "loading", arg |-> ""]
DebounceTimer(value) == [kind |-> "debounce", arg |-> value]

\* the course form is open on a new course, its auto-save effect has run;
\* the courses list is not shown; ran is the timer callback that ran last
ViewInit ==
  [form |-> TRUE, list |-> FALSE, pending |-> {AutoSaveTimer},
   searchTerm |-> "", search |-> "", searchDebounceTimer |-> NoTimer,
   ran |-> NoTimer, orphan |-> FALSE, stale |-> FALSE]

\* nothing was exported or calculated yet, no second tab is open
InitAux ==
  /\ bundle = [has |-> FALSE, progress |-> EmptyProgress, bookmarks |-> <<>>,
               streak |-> NoStreak]
  /\ ctxB = [progress |-> EmptyProgress, bookmarks |-> <<>>,
             learningStreak |-> NoStreak, loaded |-> FALSE]
  /\ stats = [done |-> FALSE, courses |-> <<>>, progress |-> EmptyProgress,
              ret |-> ZeroStats]
  /\ view = ViewInit

InitCommon ==
  /\ InitAux
  /\ clock = 1
  /\ alive = FALSE
  /\ state = <<>>
  /\ today = 1
  /\ ctx = [progress |-> EmptyProgress, bookmarks |-> <<>>,
            learningStreak |-> NoStreak, loaded |-> FALSE]
  /\ lastL = [op |-> "init", id |-> "none", meta |-> NoMeta, ret |-> "none",
              rejected |-> FALSE, loaded |-> NoLoad,
              pre |-> [ledger |-> Ledger(localStorage), ctx |-> ctx]]
  /\ form = <<>>
  /\ strip = [done |-> FALSE, input |-> <<>>, out |-> <<>>]
  /\ ld = [mounted |-> FALSE, lessonId |-> "none", progress |-> EmptyProgress]
  /\ calc = [done |-> FALSE, course |-> NoCourse, progress |-> EmptyProgress,
             ret |-> ZeroProgress]

Init ==
  /\ \E p \in InitPayloads : localStorage = InitStore(p)
  /\ domOK = TRUE
  /\ dst = 0
  /\ InitCommon
  /\ last = [op |-> "init", success |-> TRUE, migrationRun |-> FALSE,
             crashed |-> FALSE, rejected |-> FALSE, arg |-> 0, ret |-> <<>>,
             autoChanged |-> FALSE, afterRestore |-> FALSE,
             autoDone |-> FALSE]

----------------------------------------------------------------------------
(* Course store and migration: actions *)

LedgerUnchanged == UNCHANGED <<today, ctx, lastL, ld, form, dst, calc, aux, view>>

\* the page is loaded: the slice's initialState is loadCoursesFromStorage();
\* with crash, the page dies at the write `at` names
Startup(at, crash) ==
  LET r == loadCoursesFromStorage(localStorage, clock, at) IN
  /\ crash => r.hit
  /\ localStorage' = IF crash THEN r.mid ELSE r.store
  /\ alive' = ~crash
  /\ state' = IF crash THEN <<>> ELSE r.ret
  /\ last' = Op("load", r, localStorage, 0, crash)
  /\ UNCHANGED <<domOK, clock>>
  /\ LedgerUnchanged

\* loadCoursesFromStorage() called by the running page
LoadCall(at) ==
  LET r == loadCoursesFromStorage(localStorage, clock, at) IN
  /\ alive
  /\ localStorage' = r.store
  /\ last' = Op("load", r, localStorage, 0, FALSE)
  /\ UNCHANGED <<domOK, clock, alive, state>>
  /\ LedgerUnchanged

Crashed(r, crash) ==
  /\ crash => r.hit
  /\ alive' = ~crash
  /\ state' = IF crash THEN <<>> ELSE state

RunAutoMigration(at, crash) ==
  LET r == runAutoMigration(localStorage, clock, at) IN
  /\ alive
  /\ Crashed(r, crash)
  /\ localStorage' = r.store
  /\ last' = Op("auto", r @@ [mid |-> r.store, ret |-> <<>>],
                localStorage, 0, crash)
  /\ UNCHANGED <<domOK, clock>>
  /\ LedgerUnchanged

RestoreFromBackup(backupKey, at, crash) ==
  LET r == restoreFromBackup(localStorage, backupKey, at) IN
  /\ alive
  /\ at \in {"none", "courses", "marker"}
  /\ at = "marker" => crash
  /\ Crashed(r, crash)
  /\ localStorage' = r.store
  /\ last' = Op("restore", r @@ [mid |-> r.store, ret |-> <<>>,
                                 migrationRun |-> FALSE],
                localStorage, backupKey, crash)
  /\ UNCHANGED <<domOK, clock>>
  /\ LedgerUnchanged

CleanupOldBackups(keepCount) ==
  LET S2 == cleanupOldBackups(localStorage, keepCount) IN
  /\ alive
  /\ localStorage' = S2
  /\ last' = Op("cleanup", [success |-> TRUE, migrationRun |-> FALSE,
                            hit |-> FALSE, mid |-> S2, ret |-> <<>>],
                localStorage, keepCount, FALSE)
  /\ UNCHANGED <<domOK, clock, alive, state>>
  /\ LedgerUnchanged

\* the tail of every reducer: saveCoursesToStorage(newState); return newState
Reduce(name, newState, at) ==
  LET r == saveCoursesToStorage(localStorage, newState, at) IN
  /\ alive
  /\ at \in {"none", "courses"}
  /\ Len(newState) <= MaxCourses
  /\ localStorage' = r.store
  /\ state' = newState
  /\ last' = Op(name, [success |-> r.ok, migrationRun |-> FALSE,
                       hit |-> ~r.ok, mid |-> r.store, ret |-> newState],
                localStorage, 0, FALSE)
  /\ UNCHANGED <<domOK, clock, alive>>
  /\ LedgerUnchanged

addCourse(c, at) == Reduce("add", Append(state, c), at)

updateCourse(c, at) ==
  LET hits == {k \in 1..Len(state) : state[k].id = c.id} IN
  Reduce("update",
         IF hits # {}
         THEN LET index == CHOOSE k \in hits : \A j \in hits : k <= j
              IN [state EXCEPT ![index] = c]
         ELSE Append(state, c),
         at)

removeCourse(id, at) ==
  Reduce("remove", SelectSeq(state, LAMBDA c : c.id # id), at)

\* payload: an array, or anything else (isArray is FALSE), which gives []
setCourses(payload, isArray, at) ==
  Reduce("set", IF isArray THEN payload ELSE <<>>, at)

clearCourses(at) == Reduce("clear", <<>>, at)

\* testErrorHandling: the save of "invalid data" is refused, then the key is
\* overwritten with 'invalid json' and loaded
TestErrorHandling(at) ==
  LET S1 == [localStorage EXCEPT !.courses = TextVal]
      r == loadCoursesFromStorage(S1, clock, at)
  IN
  /\ alive
  /\ localStorage' = r.store
  /\ last' = Op("test", r, S1, 0, FALSE)
  /\ UNCHANGED <<domOK, clock, alive, state>>
  /\ LedgerUnchanged

\* time passes; only its order against the backup keys is observable, so
\* the clock moves on once a backup carries its current value
Tick(max) ==
  /\ clock < max
  /\ clock \in DOMAIN localStorage.backups
  /\ clock' = clock + 1
  /\ UNCHANGED <<localStorage, domOK, alive, state, last>>
  /\ LedgerUnchanged

SetPayloads == {<<>>, <<CourseA>>}

Reducers ==
  \/ \E c \in CourseInputs, at \in Writes : addCourse(c, at)
  \/ \E c \in CourseInputs, at \in Writes : updateCourse(c, at)
  \/ \E id \in CourseIds, at \in Writes : removeCourse(id, at)
  \/ \E p \in SetPayloads, isArray \in BOOLEAN, at \in Writes :
       setCourses(p, isArray, at)
  \/ \E at \in Writes : clearCourses(at)

\* the course store with its migration: page loads (and crashes), the
\* reducers, restore, with storage writes that may be rejected
Next ==
  \/ \E at \in Writes, crash \in BOOLEAN : Startup(at, crash)
  \/ \E at \in Writes : LoadCall(at)
  \/ \E at \in Writes, crash \in BOOLEAN : RunAutoMigration(at, crash)
  \/ \E k \in 1..MaxClock, at \in Writes, crash \in BOOLEAN :
       RestoreFromBackup(k, at, crash)
  \/ Reducers
  \/ \E at \in Writes : TestErrorHandling(at)
  \/ Tick(MaxClock)

Spec == Init /\ [][Next]_vars

\* the backups alone: loads, migrations, restores and cleanups over a longer
\* run of timestamps, every storage write accepted
NextBackups ==
  \/ Startup("none", FALSE)
  \/ LoadCall("none")
  \/ RunAutoMigration("none", FALSE)
  \/ \E k \in 1..MaxStamp : RestoreFromBackup(k, "none", FALSE)
  \/ \E keep \in 0..MaxKeep : CleanupOldBackups(keep)
  \/ TestErrorHandling("none")
  \/ Tick(MaxStamp)

\* the catalog alone: the page is loaded, courses are dispatched to the
\* reducers and the key is read back; every storage write is accepted
NextCrud ==
  \/ Startup("none", FALSE)
  \/ LoadCall("none")
  \/ \E c \in CrudInputs : addCourse(c, "none")
  \/ \E c \in CrudInputs : updateCourse(c, "none")
  \/ \E id \in CourseIds : removeCourse(id, "none")
  \/ \E p \in SetPayloads, isArray \in BOOLEAN : setCourses(p, isArray, "none")
  \/ clearCourses("none")

SpecCrud == Init /\ [][NextCrud]_vars

SpecBackups == Init /\ [][NextBackups]_vars

----------------------------------------------------------------------------
(* Properties of the course store and the migration engine *)

\* the description and content texts of an array of courses
CourseTexts(c) ==
  {c.description}
  \cup {c.sections[i].description : i \in 1..Len(c.sections)}
  \cup UNION {{c.sections[i].lessons[j].content :
                 j \in 1..Len(c.sections[i].lessons)} : i \in 1..Len(c.sections)}

Texts(cs) == UNION {CourseTexts(cs[k]) : k \in 1..Len(cs)}

\* b holds, field by field, the stripped text of a
StrippedCourse(a, b) ==
  /\ b.id = a.id
  /\ b.description = stripHtmlTags(a.description)
  /\ Len(b.sections) = Len(a.sections)
  /\ \A i \in 1..Len(a.sections) :
       /\ b.sections[i].description = stripHtmlTags(a.sections[i].description)
       /\ Len(b.sections[i].lessons) = Len(a.sections[i].lessons)
       /\ \A j \in 1..Len(a.sections[i].lessons) :
            b.sections[i].lessons[j].content =
              stripHtmlTags(a.sections[i].lessons[j].content)

Stripped(as, bs) ==
  /\ Len(bs) = Len(as)
  /\ \A k \in 1..Len(as) : StrippedCourse(as[k], bs[k])

\* a store holding an array of courses with markup and no version marker
PreMigration(S) ==
  /\ S.courses.kind = "array"
  /\ \E t \in Texts(S.courses.val) : containsHtmlTags(t)
  /\ S.version = NoMarker

\* this step is a whole runAutoMigration() call (alone or at the head of a
\* load) that was neither cut short nor refused a write
AutoStep ==
  /\ clock' = clock
  /\ last'.op \in {"auto", "load"}
  /\ ~last'.rejected /\ ~last'.crashed

MigratedAndStripped ==
  /\ ~isMigrationNeeded(localStorage')
  /\ localStorage'.courses.kind = "array"
  /\ Stripped(localStorage.courses.val, localStorage'.courses.val)
  /\ \A k \in 1..Len(localStorage.courses.val) :
       localStorage.courses.val[k].description = TagText
         => localStorage'.courses.val[k].description = PlainText

\* C1 as claimed: from an array with markup and no marker, one
\* runAutoMigration() leaves no migration needed, every description/content
\* stripped, and exactly one backup key, holding the original payload
C1_Original ==
  [][(PreMigration(localStorage) /\ AutoStep) =>
       /\ MigratedAndStripped
       /\ \E t \in DOMAIN localStorage'.backups :
            /\ DOMAIN localStorage'.backups = {t}
            /\ localStorage'.backups[t] = localStorage.courses]_vars

\* C1 amended: ... and the backup key of this call (its Date.now()) holds the
\* original payload; it is the only backup key when the store held none
C1_MigrationStripsAndBacksUp ==
  [][(PreMigration(localStorage) /\ AutoStep) =>
       /\ MigratedAndStripped
       /\ clock \in DOMAIN localStorage'.backups
       /\ localStorage'.backups[clock] = localStorage.courses
       /\ (DOMAIN localStorage.backups = {}
             => DOMAIN localStorage'.backups = {clock})]_vars

C1_Witness ==
  /\ last.op = "auto" /\ last.migrationRun /\ last.success
  /\ localStorage.courses.kind = "array"
  /\ Len(localStorage.courses.val) = 1
  /\ localStorage.courses.val[1].description = PlainText
  /\ localStorage.courses.val[1].sections[1].lessons[1].content = PlainText
  /\ DOMAIN localStorage.backups = {clock}
  /\ localStorage.backups[clock] = Arr(<<CourseA>>)

\* the migration part of this step ran and did not complete
MigrationFailed(l) == l.migrationRun /\ (~l.success \/ l.crashed)

\* C2: a migration that fails (unparseable or non-array payload, refused
\* write) or is cut short between its writes leaves the marker as it was, so
\* migration stays needed; the marker becomes current only in a step whose
\* migration completed; and the load after a failed migration runs it again
C2_MarkerWrittenLast ==
  [][clock' = clock =>
       /\ (last'.op \in {"auto", "load", "test"} /\ MigrationFailed(last')
             => /\ localStorage'.version = localStorage.version
                /\ isMigrationNeeded(localStorage'))
       /\ (isMigrationNeeded(localStorage) /\ ~isMigrationNeeded(localStorage')
             => last'.migrationRun /\ last'.success /\ ~last'.crashed)
       /\ (MigrationFailed(last) /\ last'.op = "load"
             => last'.migrationRun)]_vars

\* the page died after the sanitized courses were written, before the marker
C2_Witness ==
  /\ last.op = "load" /\ last.migrationRun /\ last.crashed
  /\ ~alive
  /\ localStorage.courses = Arr(sanitizeCoursesForStorage(<<CourseA>>))
  /\ DOMAIN localStorage.backups # {}
  /\ localStorage.version = NoMarker

\* C3: once a runAutoMigration() has returned success, every later one (no
\* restore in between) reports migrationRun = false and writes nothing
C3_MigrationRunsOnce ==
  [][(clock' = clock /\ last.autoDone /\ last'.op \in {"auto", "load", "test"}) =>
       /\ ~last'.migrationRun
       /\ ~last'.autoChanged
       /\ (last'.op = "auto" => localStorage' = localStorage)]_vars

\* a later runAutoMigration(), after courses were saved by the reducers
C3_Witness ==
  /\ last.op = "auto" /\ last.autoDone /\ ~last.migrationRun
  /\ alive /\ state = <<CourseC>>
  /\ localStorage.courses = Arr(sanitizeCoursesForStorage(state))
  /\ DOMAIN localStorage.backups # {}

\* C4 as claimed: once runAutoMigration() has returned, at most 3 backup keys
C4_AtMostThreeBackups ==
  last.op # "init" =>
    Cardinality(DOMAIN localStorage.backups) <= AutoKeepCount

\* the newest n of a set of timestamps
Newest(T, n) == {t \in T : Cardinality({u \in T : u > t}) < n}

\* C5: a successful restoreFromBackup(key) leaves under `courses` exactly the
\* backup payload and no marker; the load that follows (its writes accepted)
\* runs the migration and returns the restored courses stripped
C5_RestoreForcesRemigration ==
  [][clock' = clock =>
       /\ (last'.op = "restore" /\ last'.success
             => /\ localStorage'.courses = localStorage.backups[last'.arg]
                /\ localStorage'.version = NoMarker
                /\ isMigrationNeeded(localStorage'))
       /\ (last'.op = "load" /\ last'.afterRestore /\ ~last'.rejected
             => /\ last'.migrationRun
                /\ Stripped(localStorage.courses.val, last'.ret)
                /\ localStorage'.courses = Arr(last'.ret))]_vars

C5_Witness ==
  /\ last.op = "load" /\ last.afterRestore /\ last.migrationRun
  /\ last.ret = sanitizeCoursesForStorage(<<CourseA>>)
  /\ Cardinality(DOMAIN localStorage.backups) = 2
  /\ \A t \in DOMAIN localStorage.backups :
       localStorage.backups[t] = Arr(<<CourseA>>)

\* C6 as claimed: cleanupOldBackups(keep) leaves exactly the min(keep, n)
\* backup keys with the largest timestamps and changes no other key
C6_CleanupKeepsNewest ==
  [][(clock' = clock /\ last'.op = "cleanup") =>
       /\ DOMAIN localStorage'.backups =
            Newest(DOMAIN localStorage.backups, last'.arg)
       /\ \A t \in DOMAIN localStorage'.backups :
            localStorage'.backups[t] = localStorage.backups[t]
       /\ localStorage'.courses = localStorage.courses
       /\ localStorage'.version = localStorage.version]_vars

\* C7 as claimed, for the states right after a reducer has saved the
\* catalog: no stored description or content holds a tag
C7_NoMarkupStored ==
  (last.op \in {"add", "update", "remove", "set", "clear"} /\ last.success) =>
    /\ localStorage.courses.kind = "array"
    /\ \A t \in Texts(localStorage.courses.val) : ~containsHtmlTags(t)


\* the restore is given a key that is not there, or a payload that does not
\* parse or is not an array
RestoreRefused(S, backupKey) ==
  \/ backupKey \notin DOMAIN S.backups
  \/ S.backups[backupKey].kind # "array"

\* C29 as claimed: restoreFromBackup of an absent key, or of a payload that is
\* unparseable or not an array, returns success false and leaves `courses`,
\* the version marker and every backup key as they were
C29_FailedRestoreChangesNothing ==
  [][(clock' = clock /\ last'.op = "restore"
        /\ RestoreRefused(localStorage, last'.arg)) =>
       /\ ~last'.success
       /\ localStorage'.courses = localStorage.courses
       /\ localStorage'.version = localStorage.version
       /\ localStorage'.backups = localStorage.backups]_vars

\* a restore from a backup that holds something else than an array has
\* failed on a migrated store
C29_Witness ==
  /\ last.op = "restore" /\ ~last.success /\ ~last.rejected
  /\ last.arg \in DOMAIN localStorage.backups
  /\ localStorage.backups[last.arg].kind # "array"
  /\ localStorage.version = CURRENT_MIGRATION_VERSION

\* C28 as claimed: in every state reached through loads, reducers, migrations
\* and restores, when the version marker is the current one and `courses`
\* holds an array, stripHtmlTags leaves every stored description and content
\* as it is
C28_MarkerImpliesSanitized ==
  (localStorage.version = CURRENT_MIGRATION_VERSION
     /\ localStorage.courses.kind = "array") =>
    \A t \in Texts(localStorage.courses.val) : stripHtmlTags(t) = t

----------------------------------------------------------------------------
(* Progress ledger: actions.  The utility functions work on the store; the
   ProgressProvider callbacks work on its state and save it *)

CourseUnchanged == UNCHANGED <<domOK, clock, alive, state, last, ld, form, dst, calc, aux, view>>

OpL(name, id, meta, ret, rej) ==
  [op |-> name, id |-> id, meta |-> meta, ret |-> ret, rejected |-> rej,
   loaded |-> NoLoad,
   pre |-> [ledger |-> Ledger(localStorage), ctx |-> ctx]]

UtilToggleLessonCompletion(lessonId, meta, rejS, rejP) ==
  LET r == toggleLessonCompletion(localStorage, lessonId, meta, today, rejS, rejP) IN
  /\ localStorage' = r.store
  /\ lastL' = OpL("toggle", lessonId, meta, r.ret, rejS \/ rejP)
  /\ UNCHANGED <<today, ctx>>
  /\ CourseUnchanged

UtilMarkLessonCompleted(lessonId, meta, rejS, rejP) ==
  LET r == markLessonCompleted(localStorage, lessonId, meta, today, rejS, rejP) IN
  /\ localStorage' = r.store
  /\ lastL' = OpL("markCompleted", lessonId, meta,
                  IF r.ok THEN "true" ELSE "false", rejS \/ rejP)
  /\ UNCHANGED <<today, ctx>>
  /\ CourseUnchanged

UtilMarkLessonIncomplete(lessonId, rejP) ==
  LET r == markLessonIncomplete(localStorage, lessonId, rejP) IN
  /\ localStorage' = r.store
  /\ lastL' = OpL("markIncomplete", lessonId, NoMeta,
                  IF r.ok THEN "true" ELSE "false", rejP)
  /\ UNCHANGED <<today, ctx>>
  /\ CourseUnchanged

UtilToggleCourseBookmark(courseId, rej) ==
  LET r == toggleCourseBookmark(localStorage, courseId, rej) IN
  /\ localStorage' = r.store
  /\ lastL' = OpL("bookmark", courseId, NoMeta, r.ret, rej)
  /\ UNCHANGED <<today, ctx>>
  /\ CourseUnchanged

\* the provider mounts (page load): its effect reads the three keys
CtxMount ==
  /\ ctx' = [progress |-> loadProgressFromStorage(localStorage),
             bookmarks |-> loadBookmarkedCourses(localStorage),
             learningStreak |-> getLearningStreak(localStorage),
             loaded |-> TRUE]
  /\ lastL' = OpL("mount", "none", NoMeta, "undefined", FALSE)
  /\ UNCHANGED <<localStorage, today>>
  /\ CourseUnchanged

\* the callback returns nothing: its result is undefined
CtxToggleLessonCompletion(lessonId, meta, rejS, rejP) ==
  LET prev == ctx.progress[lessonId]
      completing == ~(prev.present /\ prev.completed)
      newProgress == [ctx.progress EXCEPT
                        ![lessonId] = IF completing THEN NewRec(meta) ELSE NoRec]
      u == updateLearningStreak(localStorage, today, rejS)
      S1 == IF completing THEN u.store ELSE localStorage
  IN
  /\ ctx.loaded
  /\ localStorage' = saveProgressToStorage(S1, newProgress, rejP).store
  /\ ctx' = [ctx EXCEPT !.progress = newProgress,
                        !.learningStreak = IF completing THEN u.ret ELSE @]
  /\ lastL' = OpL("ctxToggle", lessonId, meta, "undefined", rejS \/ rejP)
  /\ UNCHANGED today
  /\ CourseUnchanged

CtxMarkLessonCompleted(lessonId, meta, rejS, rejP) ==
  LET newProgress == [ctx.progress EXCEPT ![lessonId] = NewRec(meta)]
      S1 == saveProgressToStorage(localStorage, newProgress, rejP).store
      u == updateLearningStreak(S1, today, rejS)
  IN
  /\ ctx.loaded
  /\ localStorage' = u.store
  /\ ctx' = [ctx EXCEPT !.progress = newProgress, !.learningStreak = u.ret]
  /\ lastL' = OpL("ctxMarkCompleted", lessonId, meta, "undefined", rejS \/ rejP)
  /\ UNCHANGED today
  /\ CourseUnchanged

CtxMarkLessonIncomplete(lessonId, rejP) ==
  LET newProgress == [ctx.progress EXCEPT ![lessonId] = NoRec] IN
  /\ ctx.loaded
  /\ localStorage' = saveProgressToStorage(localStorage, newProgress, rejP).store
  /\ ctx' = [ctx EXCEPT !.progress = newProgress]
  /\ lastL' = OpL("ctxMarkIncomplete", lessonId, NoMeta, "undefined", rejP)
  /\ UNCHANGED today
  /\ CourseUnchanged

NextDay ==
  /\ today < MaxDay
  /\ today' = today + 1
  /\ UNCHANGED <<localStorage, ctx, lastL>>
  /\ CourseUnchanged

\* the storage utilities of progressTracking.js
NextLedger ==
  \/ \E l \in Lessons, m \in Metas, rejS, rejP \in BOOLEAN :
       UtilToggleLessonCompletion(l, m, rejS, rejP)
  \/ \E l \in Lessons, m \in Metas, rejS, rejP \in BOOLEAN :
       UtilMarkLessonCompleted(l, m, rejS, rejP)
  \/ \E l \in Lessons, rejP \in BOOLEAN : UtilMarkLessonIncomplete(l, rejP)
  \/ \E c \in CourseIds, rej \in BOOLEAN : UtilToggleCourseBookmark(c, rej)
  \/ NextDay

\* the ProgressProvider callbacks, over a store no one else writes
NextContext ==
  \/ CtxMount
  \/ \E l \in Lessons, m \in Metas, rejS, rejP \in BOOLEAN :
       CtxToggleLessonCompletion(l, m, rejS, rejP)
  \/ \E l \in Lessons, m \in Metas, rejS, rejP \in BOOLEAN :
       CtxMarkLessonCompleted(l, m, rejS, rejP)
  \/ \E l \in Lessons, rejP \in BOOLEAN : CtxMarkLessonIncomplete(l, rejP)
  \/ NextDay

\* an empty ledger: none of the three keys is stored
InitLedger == Init /\ localStorage.courses = NoVal

SpecLedger == InitLedger /\ [][NextLedger]_vars

SpecContext == InitLedger /\ [][NextContext]_vars

----------------------------------------------------------------------------
(* Lesson detail view of course c1: it keeps its progress under its own key,
   `course_progress_${courseId}` *)

\* the route /courses/c1/sections/../lessons/lessonId is opened: the effect
\* finds the lesson and calls loadProgress
LdMount(lessonId) ==
  /\ ld' = [mounted |-> TRUE, lessonId |-> lessonId,
            progress |-> IF localStorage.course_progress_c1.kind = "map"
                           THEN localStorage.course_progress_c1.val
                         ELSE ld.progress]
  /\ lastL' = OpL("ldMount", lessonId, NoMeta, "undefined", FALSE)
  /\ UNCHANGED <<localStorage, today, ctx, domOK, clock, alive, state, last,
                 form, dst, calc, aux, view>>

\* rej: setItem throws; saveProgress then skips setProgress
LdToggleLessonCompletion(rej) ==
  LET cur == ld.progress[ld.lessonId]
      newProgress == [ld.progress EXCEPT ![ld.lessonId] =
                        IF cur.present /\ cur.completed THEN NoRec
                        ELSE NewRec(NoMeta)]
  IN
  /\ ld.mounted
  /\ localStorage' = IF rej THEN localStorage
                     ELSE [localStorage EXCEPT !.course_progress_c1 =
                             [kind |-> "map", val |-> newProgress]]
  /\ ld' = IF rej THEN ld ELSE [ld EXCEPT !.progress = newProgress]
  /\ lastL' = OpL("ldToggle", ld.lessonId, NoMeta, "undefined", rej)
  /\ UNCHANGED <<today, ctx, domOK, clock, alive, state, last, form, dst,
                 calc, aux, view>>

\* the two views that toggle lessons, every write accepted
NextSurfaces ==
  \/ CtxMount
  \/ \E l \in Lessons, m \in Metas :
       CtxToggleLessonCompletion(l, m, FALSE, FALSE)
  \/ \E l \in Lessons : LdMount(l)
  \/ LdToggleLessonCompletion(FALSE)
  \/ NextDay

SpecSurfaces == InitLedger /\ [][NextSurfaces]_vars

----------------------------------------------------------------------------
(* Bookmarks: actions *)

isCourseBookmarked(S, courseId) == courseId \in Range(loadBookmarkedCourses(S))

\* the provider's callback: the updater saves the new list; the callback
\* itself has no return statement
CtxToggleCourseBookmark(courseId, rej) ==
  LET isBookmarked == courseId \in Range(ctx.bookmarks)
      newBookmarks == IF isBookmarked
                        THEN SelectSeq(ctx.bookmarks, LAMBDA id : id # courseId)
                      ELSE Append(ctx.bookmarks, courseId)
  IN
  /\ ctx.loaded
  /\ localStorage' = saveBookmarkedCourses(localStorage, newBookmarks, rej).store
  /\ ctx' = [ctx EXCEPT !.bookmarks = newBookmarks]
  /\ lastL' = OpL("ctxBookmark", courseId, NoMeta, "undefined", rej)
  /\ UNCHANGED today
  /\ CourseUnchanged

\* bookmarks toggled through the storage utility and through the provider
NextBookmarks ==
  \/ CtxMount
  \/ \E c \in CourseIds, rej \in BOOLEAN : CtxToggleCourseBookmark(c, rej)
  \/ \E c \in CourseIds, rej \in BOOLEAN : UtilToggleCourseBookmark(c, rej)

SpecBookmarks == InitLedger /\ [][NextBookmarks]_vars

\* the provider's callbacks interleaved with the storage utilities
NextMirror ==
  \/ CtxMount
  \/ \E l \in Lessons, rejS, rejP \in BOOLEAN :
       CtxToggleLessonCompletion(l, NoMeta, rejS, rejP)
  \/ \E c \in CourseIds, rej \in BOOLEAN : CtxToggleCourseBookmark(c, rej)
  \/ \E l \in Lessons : UtilToggleLessonCompletion(l, NoMeta, FALSE, FALSE)
  \/ \E c \in CourseIds : UtilToggleCourseBookmark(c, FALSE)

SpecMirror == InitLedger /\ [][NextMirror]_vars

----------------------------------------------------------------------------
(* Two tabs on one store: `ctx` is tab A, `ctxB` tab B *)

providerToggleMerging(c, S, lessonId, meta, day, rejS, rejP) ==
  LET stored == loadProgressFromStorage(S)
      completing == ~(stored[lessonId].present /\ stored[lessonId].completed)
      newProgress == [stored EXCEPT
                        ![lessonId] = IF completing THEN NewRec(meta) ELSE NoRec]
      u == updateLearningStreak(S, day, rejS)
      S1 == IF completing THEN u.store ELSE S
  IN [ctx |-> [c EXCEPT !.progress = newProgress,
                        !.learningStreak = IF completing THEN u.ret ELSE @],
      store |-> saveProgressToStorage(S1, newProgress, rejP).store]

\* the updater of toggleLessonCompletion on the provider state c: the new map
\* is built from the state of this tab and written whole
providerToggleLessonCompletion(c, S, lessonId, meta, day, rejS, rejP) ==
  LET prev == c.progress[lessonId]
      completing == ~(prev.present /\ prev.completed)
      newProgress == [c.progress EXCEPT
                        ![lessonId] = IF completing THEN NewRec(meta) ELSE NoRec]
      u == updateLearningStreak(S, day, rejS)
      S1 == IF completing THEN u.store ELSE S
  IN [ctx |-> [c EXCEPT !.progress = newProgress,
                        !.learningStreak = IF completing THEN u.ret ELSE @],
      store |-> saveProgressToStorage(S1, newProgress, rejP).store]

TabFrame ==
  UNCHANGED <<domOK, clock, alive, state, last, ld, form, dst, calc, today,
              ctx, strip, bundle, stats, view>>

TabBMount ==
  /\ ctxB' = [progress |-> loadProgressFromStorage(localStorage),
              bookmarks |-> loadBookmarkedCourses(localStorage),
              learningStreak |-> getLearningStreak(localStorage),
              loaded |-> TRUE]
  /\ lastL' = OpL("tabBMount", "none", NoMeta, "undefined", FALSE)
  /\ UNCHANGED localStorage
  /\ TabFrame

TabBToggleLessonCompletion(lessonId, meta, rejS, rejP) ==
  LET r == providerToggleLessonCompletion(ctxB, localStorage, lessonId, meta,
                                          today, rejS, rejP)
  IN
  /\ ctxB.loaded
  /\ localStorage' = r.store
  /\ ctxB' = r.ctx
  /\ lastL' = OpL("tabBToggle", lessonId, meta, "undefined", rejS \/ rejP)
  /\ TabFrame

NextTabs ==
  \/ CtxMount
  \/ TabBMount
  \/ \E l \in Lessons, rejP \in BOOLEAN :
       CtxToggleLessonCompletion(l, NoMeta, FALSE, rejP)
  \/ \E l \in Lessons, rejP \in BOOLEAN :
       TabBToggleLessonCompletion(l, NoMeta, FALSE, rejP)

SpecTabs == InitLedger /\ [][NextTabs]_vars

----------------------------------------------------------------------------
(* Import of exported progress data *)

\* a sub-key of the data object: has = FALSE when the key is not there
Absent(v) == [has |-> FALSE, val |-> v]
Given(v) == [has |-> TRUE, val |-> v]

OneDone == [EmptyProgress EXCEPT !["L1"] = NewRec(NoMeta)]
OneDay == [currentStreak |-> 1, longestStreak |-> 1, lastActivity |-> 1,
           activityDates |-> <<1>>, hasDates |-> TRUE]

\* the data objects given to importProgressData; {} and [] are truthy
ImportData ==
  [progress : {Absent(EmptyProgress), Given(EmptyProgress), Given(OneDone)},
   bookmarks : {Absent(<<>>), Given(<<>>), Given(<<"c1">>)},
   streak : {Absent(NoStreak), Given(OneDay)}]

\* a refused write was reached
ImportHit(data, rej) ==
  \/ data.progress.has /\ rej.progress
  \/ data.bookmarks.has /\ rej.bookmarks
  \/ data.streak.has /\ rej.streak

importApplyAll(S, data, rej) ==
  [store |-> [S EXCEPT
                !.course_progress = [kind |-> "map", val |-> data.progress.val],
                !.course_bookmarks = [kind |-> "list", val |-> data.bookmarks.val],
                !.learning_streak = [kind |-> "rec", val |-> data.streak.val]],
   ok |-> TRUE]

\* rej names the writes that are refused: the two save functions swallow
\* the exception, the direct setItem of the streak reaches the catch block
importProgressData(S, data, rej) ==
  LET S1 == IF data.progress.has
              THEN saveProgressToStorage(S, data.progress.val, rej.progress).store
            ELSE S
      S2 == IF data.bookmarks.has
              THEN saveBookmarkedCourses(S1, data.bookmarks.val, rej.bookmarks).store
            ELSE S1
  IN
  IF ~data.streak.has THEN [store |-> S2, ok |-> TRUE]
  ELSE IF rej.streak THEN [store |-> S2, ok |-> FALSE]
  ELSE [store |-> [S2 EXCEPT !.learning_streak =
                     [kind |-> IF data.streak.val.hasDates THEN "rec" ELSE "partial",
                      val |-> data.streak.val]],
        ok |-> TRUE]

UtilImportProgressData(data, rej) ==
  LET r == importProgressData(localStorage, data, rej) IN
  /\ localStorage' = r.store
  /\ lastL' = OpL("import", "none", data, IF r.ok THEN "true" ELSE "false",
                  ImportHit(data, rej))
  /\ UNCHANGED <<today, ctx>>
  /\ CourseUnchanged

\* the provider's callback sets each state before it writes the key
CtxImportProgressData(data, rej) ==
  LET r == importProgressData(localStorage, data, rej) IN
  /\ ctx.loaded
  /\ localStorage' = r.store
  /\ ctx' = [ctx EXCEPT
               !.progress = IF data.progress.has THEN data.progress.val ELSE @,
               !.bookmarks = IF data.bookmarks.has THEN data.bookmarks.val ELSE @,
               !.learningStreak = IF data.streak.has THEN data.streak.val ELSE @]
  /\ lastL' = OpL("ctxImport", "none", data, IF r.ok THEN "true" ELSE "false",
                  ImportHit(data, rej))
  /\ UNCHANGED today
  /\ CourseUnchanged

NextImport ==
  \/ CtxMount
  \/ \E data \in ImportData, rej \in [progress : BOOLEAN, bookmarks : BOOLEAN,
                                       streak : BOOLEAN] :
       \/ UtilImportProgressData(data, rej)
       \/ CtxImportProgressData(data, rej)

SpecImport == InitLedger /\ [][NextImport]_vars

----------------------------------------------------------------------------
(* Loading keys that hold anything *)

\* JSON.parse throws on "text": the catch block returns {} and removes nothing
UtilLoadProgressFromStorage ==
  /\ lastL' = [OpL("loadProgress", "none", NoMeta, "object", FALSE) EXCEPT
                !.loaded.progress = loadProgressFromStorage(localStorage)]
  /\ UNCHANGED <<localStorage, today, ctx>>
  /\ CourseUnchanged

UtilLoadBookmarkedCourses ==
  /\ lastL' = [OpL("loadBookmarks", "none", NoMeta, "array", FALSE) EXCEPT
                !.loaded.bookmarks = loadBookmarkedCourses(localStorage)]
  /\ UNCHANGED <<localStorage, today, ctx>>
  /\ CourseUnchanged

\* each of the three keys is absent, holds a string that is not JSON, or a
\* value of another or of its own type
InitLoad ==
  /\ \E p \in InitPayloads, kp \in {"none", "text", "map"},
        kb \in {"none", "text", "list"} :
       localStorage = [InitStore(p) EXCEPT !.course_progress.kind = kp,
                                           !.course_bookmarks.kind = kb]
  /\ domOK = TRUE
  /\ dst = 0
  /\ InitCommon
  /\ last = [op |-> "init", success |-> TRUE, migrationRun |-> FALSE,
             crashed |-> FALSE, rejected |-> FALSE, arg |-> 0, ret |-> <<>>,
             autoChanged |-> FALSE, afterRestore |-> FALSE,
             autoDone |-> FALSE]

NextLoad ==
  \/ \E at \in Writes : Startup(at, FALSE)
  \/ \E at \in Writes : LoadCall(at)
  \/ UtilLoadProgressFromStorage
  \/ UtilLoadBookmarkedCourses

SpecLoad == InitLoad /\ [][NextLoad]_vars

----------------------------------------------------------------------------
(* Course form: the sections of courseData and their lessons.  A section is
   [id, order, lessons], a lesson [id, order]; ids are Date.now() *)

FormFrame ==
  UNCHANGED <<localStorage, domOK, alive, state, last, today, ctx, lastL, ld,
              dst, calc, aux>>

\* the effect on [courseData]: the timer of the render before is cleared and
\* a new one is set
autoSaveEffect == [view EXCEPT !.pending = @ \cup {AutoSaveTimer}]

\* splice(dragIndex, 1) then splice(hoverIndex, 0, dragged); indices from 1
Splice(s, dragIndex, hoverIndex) ==
  LET without == SubSeq(s, 1, dragIndex - 1) \o SubSeq(s, dragIndex + 1, Len(s))
  IN SubSeq(without, 1, hoverIndex - 1) \o <<s[dragIndex]>>
       \o SubSeq(without, hoverIndex, Len(without))

\* .map((x, index) => ({ ...x, order: index }))
Renumber(s) == [i \in 1..Len(s) |-> [s[i] EXCEPT !.order = i - 1]]

addSection ==
  /\ Len(form) < MaxFormSections
  /\ form' = Append(form, [id |-> clock, order |-> Len(form), lessons |-> <<>>])
  /\ view.form
  /\ view' = autoSaveEffect
  /\ UNCHANGED clock
  /\ FormFrame

deleteSection(sectionId) ==
  /\ \E i \in 1..Len(form) : form[i].id = sectionId
  /\ form' = SelectSeq(form, LAMBDA section : section.id # sectionId)
  /\ view.form
  /\ view' = autoSaveEffect
  /\ UNCHANGED clock
  /\ FormFrame

reorderSections(dragIndex, hoverIndex) ==
  /\ dragIndex \in 1..Len(form) /\ hoverIndex \in 1..Len(form)
  /\ form' = Renumber(Splice(form, dragIndex, hoverIndex))
  /\ view.form
  /\ view' = autoSaveEffect
  /\ UNCHANGED clock
  /\ FormFrame

addLesson(sectionId) ==
  LET add(section) ==
        IF section.id # sectionId THEN section
        ELSE [section EXCEPT !.lessons =
                Append(@, [id |-> clock, order |-> Len(section.lessons)])]
  IN
  /\ \E i \in 1..Len(form) :
       form[i].id = sectionId /\ Len(form[i].lessons) < MaxFormLessons
  /\ form' = [i \in 1..Len(form) |-> add(form[i])]
  /\ view.form
  /\ view' = autoSaveEffect
  /\ UNCHANGED clock
  /\ FormFrame

deleteLesson(sectionId, lessonId) ==
  LET del(section) ==
        IF section.id # sectionId THEN section
        ELSE [section EXCEPT !.lessons =
                SelectSeq(@, LAMBDA lesson : lesson.id # lessonId)]
  IN
  /\ \E i \in 1..Len(form) :
       /\ form[i].id = sectionId
       /\ \E j \in 1..Len(form[i].lessons) : form[i].lessons[j].id = lessonId
  /\ form' = [i \in 1..Len(form) |-> del(form[i])]
  /\ view.form
  /\ view' = autoSaveEffect
  /\ UNCHANGED clock
  /\ FormFrame

reorderLessons(sectionId, dragIndex, hoverIndex) ==
  LET move(section) ==
        IF section.id # sectionId THEN section
        ELSE [section EXCEPT !.lessons =
                Renumber(Splice(@, dragIndex, hoverIndex))]
  IN
  /\ \E i \in 1..Len(form) :
       /\ form[i].id = sectionId
       /\ dragIndex \in 1..Len(form[i].lessons)
       /\ hoverIndex \in 1..Len(form[i].lessons)
  /\ \A i \in 1..Len(form) :
       form[i].id = sectionId => dragIndex \in 1..Len(form[i].lessons)
                                 /\ hoverIndex \in 1..Len(form[i].lessons)
  /\ form' = [i \in 1..Len(form) |-> move(form[i])]
  /\ view.form
  /\ view' = autoSaveEffect
  /\ UNCHANGED clock
  /\ FormFrame

\* a millisecond passes
FormTick ==
  /\ clock < MaxFormClock
  /\ clock' = clock + 1
  /\ UNCHANGED <<form, view>>
  /\ FormFrame

NextForm ==
  \/ addSection
  \/ \E id \in 1..MaxFormClock : deleteSection(id)
  \/ \E d, h \in 1..MaxFormSections : reorderSections(d, h)
  \/ \E id \in 1..MaxFormClock : addLesson(id)
  \/ \E sid, lid \in 1..MaxFormClock : deleteLesson(sid, lid)
  \/ \E sid \in 1..MaxFormClock, d, h \in 1..MaxFormLessons :
       reorderLessons(sid, d, h)
  \/ FormTick

SpecForm == InitLedger /\ [][NextForm]_vars

----------------------------------------------------------------------------
(* Saves called on their own *)

\* saveCoursesToStorage(payload), as testErrorHandling calls it
SaveCoursesToStorage(payload, isArray, at) ==
  LET r == saveCoursesToStorageOf(localStorage, payload, isArray, at) IN
  /\ alive
  /\ at \in {"none", "courses"}
  /\ localStorage' = r.store
  /\ last' = Op("save", [success |-> r.ok, migrationRun |-> FALSE,
                         hit |-> isArray /\ at = "courses", mid |-> r.store,
                         ret |-> <<>>],
                localStorage, 0, FALSE)
  /\ UNCHANGED <<domOK, clock, alive, state>>
  /\ LedgerUnchanged

UtilSaveProgressToStorage(progress, rej) ==
  LET r == saveProgressToStorage(localStorage, progress, rej) IN
  /\ localStorage' = r.store
  /\ lastL' = OpL("saveProgress", "none", NoMeta,
                  IF r.ok THEN "true" ELSE "false", rej)
  /\ UNCHANGED <<today, ctx>>
  /\ CourseUnchanged

UtilSaveBookmarkedCourses(bookmarks, rej) ==
  LET r == saveBookmarkedCourses(localStorage, bookmarks, rej) IN
  /\ localStorage' = r.store
  /\ lastL' = OpL("saveBookmarks", "none", NoMeta,
                  IF r.ok THEN "true" ELSE "false", rej)
  /\ UNCHANGED <<today, ctx>>
  /\ CourseUnchanged

\* the body of saveToLocalStorage: the draft goes to course_draft_new and
\* setTimeout(() => setIsAutoSaving(false), 1000) follows; rej: setItem throws,
\* the catch block logs and no timer is set
draftWritten(rej) ==
  IF rej THEN localStorage
  ELSE [localStorage EXCEPT !.course_draft_new = [kind |-> "draft", val |-> form]]

indicatorSet(pending, rej) ==
  IF rej THEN pending ELSE pending \cup {IndicatorTimer}

\* handleBlur: the form saves the draft of a new course
saveToLocalStorage(rej) ==
  /\ view.form
  /\ Len(form) > 0
  /\ localStorage' = draftWritten(rej)
  /\ view' = [view EXCEPT !.pending = indicatorSet(@, rej)]
  /\ UNCHANGED <<form, clock>>
  /\ UNCHANGED <<domOK, alive, state, last, today, ctx, lastL, ld, dst, calc, aux>>

\* a store that holds courses, backups, a draft and a ledger, and the saves
NextSave ==
  \/ Startup("none", FALSE)
  \/ \E p \in SetPayloads, isArray \in BOOLEAN, at \in {"none", "courses"} :
       SaveCoursesToStorage(p, isArray, at)
  \/ \E progress \in {EmptyProgress, OneDone}, rej \in BOOLEAN :
       UtilSaveProgressToStorage(progress, rej)
  \/ \E bookmarks \in {<<>>, <<"c1">>}, rej \in BOOLEAN :
       UtilSaveBookmarkedCourses(bookmarks, rej)
  \/ addSection
  \/ \E rej \in BOOLEAN : saveToLocalStorage(rej)

SpecSave == Init /\ [][NextSave]_vars

----------------------------------------------------------------------------
(* Timers of the course form and of the courses list *)

TimerFrame ==
  UNCHANGED <<domOK, clock, alive, state, last, today, ctx, lastL, ld, dst,
              calc, aux>>

\* what is typed into the search box
SearchValues == {"a", "b"}

\* the timer callback t has run; mounted: its component is still there
Ran(v, t, mounted, stale) ==
  [v EXCEPT !.ran = t, !.orphan = ~mounted, !.stale = stale]

\* the form is opened: useState reads the draft, the auto-save effect runs
FormMount ==
  /\ ~view.form
  /\ form' = IF localStorage.course_draft_new.kind = "draft"
               THEN localStorage.course_draft_new.val
             ELSE <<>>
  /\ view' = [view EXCEPT !.form = TRUE, !.pending = @ \cup {AutoSaveTimer}]
  /\ UNCHANGED localStorage
  /\ TimerFrame

\* the form is left: the effect's cleanup clears autoSaveTimeoutRef.current
FormUnmount ==
  /\ view.form
  /\ form' = <<>>
  /\ view' = [view EXCEPT !.form = FALSE, !.pending = @ \ {AutoSaveTimer}]
  /\ UNCHANGED localStorage
  /\ TimerFrame

\* AUTO_SAVE_INTERVAL has passed: the callback saves when there is something
AutoSaveFires(rej) ==
  LET saves == Len(form) > 0
      left == view.pending \ {AutoSaveTimer}
  IN
  /\ AutoSaveTimer \in view.pending
  /\ localStorage' = IF saves THEN draftWritten(rej) ELSE localStorage
  /\ view' = Ran([view EXCEPT !.pending = IF saves THEN indicatorSet(left, rej)
                                          ELSE left],
                 AutoSaveTimer, view.form, FALSE)
  /\ UNCHANGED form
  /\ TimerFrame

\* () => setIsAutoSaving(false), one second after a save
IndicatorFires ==
  /\ IndicatorTimer \in view.pending
  /\ view' = Ran([view EXCEPT !.pending = @ \ {IndicatorTimer}],
                 IndicatorTimer, view.form, FALSE)
  /\ UNCHANGED <<localStorage, form>>
  /\ TimerFrame

\* the courses list is shown: setLoading(true) and the loading delay
ListMount ==
  /\ ~view.list
  /\ view' = [view EXCEPT !.list = TRUE, !.pending = @ \cup {LoadingTimer},
                          !.searchTerm = "", !.search = "",
                          !.searchDebounceTimer = NoTimer]
  /\ UNCHANGED <<localStorage, form>>
  /\ TimerFrame

\* the list is left: the cleanup clears searchDebounceTimer
ListUnmount ==
  /\ view.list
  /\ view' = [view EXCEPT !.list = FALSE,
                          !.pending = @ \ {view.searchDebounceTimer}]
  /\ UNCHANGED <<localStorage, form>>
  /\ TimerFrame

\* () => setLoading(false), 500 ms after the mount
LoadingFires ==
  /\ LoadingTimer \in view.pending
  /\ view' = Ran([view EXCEPT !.pending = @ \ {LoadingTimer}],
                 LoadingTimer, view.list, FALSE)
  /\ UNCHANGED <<localStorage, form>>
  /\ TimerFrame

handleSearchChange(value) ==
  /\ view.list
  /\ view' = [view EXCEPT !.searchTerm = value,
                          !.pending = (@ \ {view.searchDebounceTimer})
                                        \cup {DebounceTimer(value)},
                          !.searchDebounceTimer = DebounceTimer(value)]
  /\ UNCHANGED <<localStorage, form>>
  /\ TimerFrame

clearSearch ==
  /\ view.list
  /\ view' = [view EXCEPT !.searchTerm = "", !.search = "",
                          !.pending = @ \ {view.searchDebounceTimer}]
  /\ UNCHANGED <<localStorage, form>>
  /\ TimerFrame

\* () => setFilters(prev => ({ ...prev, search: value })), 300 ms after input
DebounceFires(value) ==
  /\ DebounceTimer(value) \in view.pending
  /\ view' = Ran([view EXCEPT !.pending = @ \ {DebounceTimer(value)},
                              !.search = value],
                 DebounceTimer(value), view.list, value # view.searchTerm)
  /\ UNCHANGED <<localStorage, form>>
  /\ TimerFrame

NextTimers ==
  \/ FormMount
  \/ FormUnmount
  \/ addSection
  \/ \E rej \in BOOLEAN : saveToLocalStorage(rej)
  \/ \E rej \in BOOLEAN : AutoSaveFires(rej)
  \/ IndicatorFires
  \/ ListMount
  \/ ListUnmount
  \/ LoadingFires
  \/ \E value \in SearchValues : handleSearchChange(value)
  \/ clearSearch
  \/ \E value \in SearchValues : DebounceFires(value)

SpecTimers == InitLedger /\ [][NextTimers]_vars

----------------------------------------------------------------------------
(* The sanitizer on its own *)

StripHtmlTags ==
  /\ ~strip.done
  /\ strip' = [strip EXCEPT !.done = TRUE, !.out = stripHtmlTags(strip.input)]
  /\ UNCHANGED <<localStorage, domOK, clock, alive, state, last, today, ctx,
                 lastL, ld, form, dst, calc, bundle, ctxB, stats, view>>

NextStrip == StripHtmlTags

\* any text of the alphabet, with and without a DOM
InitStrip ==
  /\ localStorage = InitStore(NoVal)
  /\ domOK \in BOOLEAN
  /\ dst = 0
  /\ clock = 1 /\ alive = FALSE /\ state = <<>> /\ today = 1
  /\ ctx = [progress |-> EmptyProgress, bookmarks |-> <<>>,
            learningStreak |-> NoStreak, loaded |-> FALSE]
  /\ lastL = [op |-> "init", id |-> "none", meta |-> NoMeta, ret |-> "none",
              rejected |-> FALSE, loaded |-> NoLoad,
              pre |-> [ledger |-> Ledger(localStorage), ctx |-> ctx]]
  /\ form = <<>>
  /\ ld = [mounted |-> FALSE, lessonId |-> "none", progress |-> EmptyProgress]
  /\ calc = [done |-> FALSE, course |-> NoCourse, progress |-> EmptyProgress,
             ret |-> ZeroProgress]
  /\ last = [op |-> "init", success |-> TRUE, migrationRun |-> FALSE,
             crashed |-> FALSE, rejected |-> FALSE, arg |-> 0, ret |-> <<>>,
             autoChanged |-> FALSE, afterRestore |-> FALSE,
             autoDone |-> FALSE]
  /\ InitAux
  /\ \E s \in UNION {[1..n -> Chars] : n \in 0..MaxLen} :
       strip = [done |-> FALSE, input |-> s, out |-> <<>>]

SpecStrip == InitStrip /\ [][NextStrip]_vars

----------------------------------------------------------------------------
(* Learning streak: actions *)

\* rejected: a write was attempted and refused
UtilUpdateLearningStreak(rej) ==
  LET r == updateLearningStreak(localStorage, today, rej) IN
  /\ localStorage' = r.store
  /\ lastL' = OpL("streak", "none", NoMeta, "none",
                  rej /\ localStorage.learning_streak.kind \in {"none", "rec"}
                      /\ today \notin Range(getLearningStreak(localStorage).activityDates))
  /\ UNCHANGED <<today, ctx>>
  /\ CourseUnchanged

\* midnight passes
DayPasses ==
  /\ today < MaxStreakDay
  /\ today' = today + 1
  /\ lastL' = OpL("midnight", "none", NoMeta, "none", FALSE)
  /\ UNCHANGED <<localStorage, ctx>>
  /\ CourseUnchanged

NextStreak ==
  \/ \E rej \in BOOLEAN : UtilUpdateLearningStreak(rej)
  \/ DayPasses

\* what `learning_streak` can hold before the first call: nothing, a value
\* that is not JSON, a record without activityDates; any time zone
InitStreak ==
  /\ \E k \in {"none", "text", "partial"} :
       localStorage = [InitStore(NoVal) EXCEPT !.learning_streak =
                         [kind |-> k, val |-> IF k = "partial" THEN StreakFallback
                                              ELSE NoStreak]]
  /\ domOK = TRUE
  /\ dst \in 0..MaxStreakDay
  /\ InitCommon
  /\ last = [op |-> "init", success |-> TRUE, migrationRun |-> FALSE,
             crashed |-> FALSE, rejected |-> FALSE, arg |-> 0, ret |-> <<>>,
             autoChanged |-> FALSE, afterRestore |-> FALSE,
             autoDone |-> FALSE]

SpecStreak == InitStreak /\ [][NextStreak]_vars

----------------------------------------------------------------------------
(* Reset, export and re-import of the ledger *)

Removed(S, key) ==
  [S EXCEPT ![key] = InitStore(NoVal)[key]]

\* at: the removeItem call that throws, 0 when none does; the catch block
\* returns false with the keys before it already removed
clearAllProgress(S, at) ==
  IF at = 1 THEN [store |-> S, ret |-> "false"]
  ELSE IF at = 2 THEN [store |-> Removed(S, "course_progress"), ret |-> "false"]
  ELSE IF at = 3
    THEN [store |-> Removed(Removed(S, "course_progress"), "course_bookmarks"),
          ret |-> "false"]
  ELSE [store |-> Removed(Removed(Removed(S, "course_progress"),
                                  "course_bookmarks"), "learning_streak"),
        ret |-> "true"]

UtilClearAllProgress(at) ==
  LET r == clearAllProgress(localStorage, at) IN
  /\ localStorage' = r.store
  /\ lastL' = OpL("clear", "none", NoMeta, r.ret, at # 0)
  /\ UNCHANGED <<today, ctx>>
  /\ CourseUnchanged

\* the provider's callback: the three setters, the two save functions, then
\* localStorage.removeItem outside any try block; thr: that call throws
CtxClearAllProgress(rejP, rejB, thr) ==
  LET S1 == saveProgressToStorage(localStorage, EmptyProgress, rejP).store
      S2 == saveBookmarkedCourses(S1, <<>>, rejB).store
  IN
  /\ ctx.loaded
  /\ ctx' = [ctx EXCEPT !.progress = EmptyProgress, !.bookmarks = <<>>,
                        !.learningStreak = StreakFallback]
  /\ localStorage' = IF thr THEN S2 ELSE Removed(S2, "learning_streak")
  /\ lastL' = OpL("ctxClear", "none", NoMeta,
                  IF thr THEN "raised" ELSE "undefined", rejP \/ rejB \/ thr)
  /\ UNCHANGED today
  /\ CourseUnchanged

\* the three loaders give their fallback when a read throws
UtilExportProgressData ==
  /\ bundle' = [has |-> TRUE,
                progress |-> loadProgressFromStorage(localStorage),
                bookmarks |-> loadBookmarkedCourses(localStorage),
                streak |-> getLearningStreak(localStorage)]
  /\ lastL' = OpL("export", "none", NoMeta, "object", FALSE)
  /\ UNCHANGED <<localStorage, domOK, clock, alive, state, last, today, ctx,
                 ld, form, dst, calc, strip, ctxB, stats, view>>

CtxExportProgressData ==
  /\ ctx.loaded
  /\ bundle' = [has |-> TRUE, progress |-> ctx.progress,
                bookmarks |-> ctx.bookmarks, streak |-> ctx.learningStreak]
  /\ lastL' = OpL("ctxExport", "none", NoMeta, "object", FALSE)
  /\ UNCHANGED <<localStorage, domOK, clock, alive, state, last, today, ctx,
                 ld, form, dst, calc, strip, ctxB, stats, view>>

\* the exported object as a data argument: its three keys are there
BundleData ==
  [progress |-> Given(bundle.progress), bookmarks |-> Given(bundle.bookmarks),
   streak |-> Given(bundle.streak)]

NoRejects == [progress |-> FALSE, bookmarks |-> FALSE, streak |-> FALSE]

NextReset ==
  \/ CtxMount
  \/ \E rejS, rejP \in BOOLEAN : CtxToggleLessonCompletion("L1", NoMeta, rejS, rejP)
  \/ \E rejS, rejP \in BOOLEAN : UtilMarkLessonCompleted("L1", NoMeta, rejS, rejP)
  \/ \E rej \in BOOLEAN : UtilUpdateLearningStreak(rej)
  \/ \E at \in 0..3 : UtilClearAllProgress(at)
  \/ \E rejP, rejB, thr \in BOOLEAN : CtxClearAllProgress(rejP, rejB, thr)
  \/ UtilExportProgressData
  \/ CtxExportProgressData
  \/ bundle.has /\ UtilImportProgressData(BundleData, NoRejects)
  \/ bundle.has /\ CtxImportProgressData(BundleData, NoRejects)
  \/ NextDay

SpecReset == InitLedger /\ [][NextReset]_vars

----------------------------------------------------------------------------
(* Progress statistics: actions *)

UtilCalculateCourseProgress(course) ==
  /\ calc' = [done |-> TRUE, course |-> course,
              progress |-> loadProgressFromStorage(localStorage),
              ret |-> calculateCourseProgress(localStorage, course)]
  /\ UNCHANGED <<localStorage, domOK, clock, alive, state, last, today, ctx,
                 lastL, ld, form, dst, aux, view>>

\* the records markLessonCompleted can have stored for a lesson, or none
StoredRecs == {NoRec} \cup {NewRec(m) : m \in Metas}

\* a ledger some sequence of markLessonCompleted calls has written
InitProgress ==
  /\ \E progress \in [Lessons -> StoredRecs] :
       localStorage = [InitStore(NoVal) EXCEPT
                         !.course_progress = [kind |-> "map", val |-> progress]]
  /\ domOK = TRUE
  /\ dst = 0
  /\ InitCommon
  /\ last = [op |-> "init", success |-> TRUE, migrationRun |-> FALSE,
             crashed |-> FALSE, rejected |-> FALSE, arg |-> 0, ret |-> <<>>,
             autoChanged |-> FALSE, afterRestore |-> FALSE,
             autoDone |-> FALSE]

\* statistics are read for one course after another
NextProgress == \E c \in ProgressCourses : UtilCalculateCourseProgress(c)

SpecProgress == InitProgress /\ [][NextProgress]_vars

----------------------------------------------------------------------------
(* Completion statistics: actions *)

StatsFrame ==
  UNCHANGED <<localStorage, domOK, clock, alive, state, last, today, ctx,
              lastL, ld, form, dst, calc, strip, bundle, ctxB, view>>

\* calculateCourseAnalytics: progressData is loadProgressFromStorage()
CalculateCompletionStats(courses) ==
  LET progressData == loadProgressFromStorage(localStorage) IN
  /\ stats' = [done |-> TRUE, courses |-> courses, progress |-> progressData,
               ret |-> calculateCompletionStats(courses, progressData)]
  /\ StatsFrame

\* the dashboard's useMemo, with the provider's in-memory progress
DashboardCompletionStats(courses) ==
  /\ ctx.loaded
  /\ stats' = [done |-> TRUE, courses |-> courses, progress |-> ctx.progress,
               ret |-> dashboardCompletionStats(courses, ctx.progress)]
  /\ StatsFrame

NextStats ==
  \/ CtxMount
  \/ \E courses \in StatLists : CalculateCompletionStats(courses)
  \/ \E courses \in StatLists : DashboardCompletionStats(courses)

SpecStats == InitProgress /\ [][NextStats]_vars

----------------------------------------------------------------------------
(* Properties of the progress ledger *)

\* the step is the second of two toggleLessonCompletion calls for one lesson
\* with one metadata argument on one day, no write rejected in either
SecondToggle ==
  /\ today' = today
  /\ lastL.op = "toggle" /\ lastL'.op = "toggle"
  /\ lastL'.id = lastL.id /\ lastL'.meta = lastL.meta
  /\ ~lastL.rejected /\ ~lastL'.rejected

\* C8 as claimed: toggleLessonCompletion applied twice returns the whole
\* ledger (progress map, bookmarks, streak record) to its original state;
\* the model's records carry no completedAt, so timestamps are ignored
C8_ToggleTwiceRestores ==
  [][SecondToggle => Ledger(localStorage') = lastL.pre.ledger]_vars

\* C9 as claimed: every key of the persisted progress map holds a record
\* with completed = true
C9_PresenceMeansCompleted ==
  \A l \in Lessons :
    loadProgressFromStorage(localStorage)[l].present
      => loadProgressFromStorage(localStorage)[l].completed

\* C10 as claimed: when toggleLessonCompletion(lessonId) returns b, the stored
\* map holds a completed record for lessonId iff b is true, also when the
\* storage write is rejected
C10_ToggleReturnsStoredState ==
  (lastL.op = "toggle" /\ lastL.meta = NoMeta) =>
    (lastL.ret = "true" <=>
       /\ loadProgressFromStorage(localStorage)[lastL.id].present
       /\ loadProgressFromStorage(localStorage)[lastL.id].completed)

----------------------------------------------------------------------------
(* Properties of the progress statistics *)

RECURSIVE SumLen(_, _)
\* number of lessons over the sections from index i
SumLen(sections, i) ==
  IF i > Len(sections) THEN 0
  ELSE Len(sections[i].lessons) + SumLen(sections, i + 1)

\* number of lessons of the sections from index i that have a completed record
RECURSIVE SumDone(_, _, _)
SumDone(progress, sections, i) ==
  IF i > Len(sections) THEN 0
  ELSE Cardinality({j \in 1..Len(sections[i].lessons) :
                      IsCompleted(progress, sections[i].lessons[j])})
       + SumDone(progress, sections, i + 1)

\* the sections with a lessons list every one of whose lessons is completed
AllLessonsDone(progress, sections) ==
  {i \in 1..Len(sections) :
     /\ sections[i].has
     /\ \A j \in 1..Len(sections[i].lessons) :
          IsCompleted(progress, sections[i].lessons[j])}

\* C11 as claimed: the five statistics are the counts the claim names, a
\* section being completed iff every one of its lessons is completed
C11_ProgressStatistics ==
  (calc.done /\ calc.course.has) =>
    LET progress == calc.progress
        sections == calc.course.sections
        total == SumLen(sections, 1)
        completed == SumDone(progress, sections, 1)
    IN
    /\ calc.ret.totalLessons = total
    /\ calc.ret.completedLessons = completed
    /\ calc.ret.completionPercentage =
         (IF total = 0 THEN 0 ELSE MathRound(100 * completed, total))
    /\ calc.ret.totalSections = Len(sections)
    /\ calc.ret.completedSections =
         Cardinality(AllLessonsDone(progress, sections))

----------------------------------------------------------------------------
(* Properties of the learning streak *)

\* C12: a call of updateLearningStreak that directly follows another one on
\* the same calendar day, whose write (if any) was accepted, writes nothing:
\* N calls leave the record the first one left
C12_StreakIdempotentPerDay ==
  [][(/\ lastL.op = "streak" /\ ~lastL.rejected
      /\ lastL'.op = "streak" /\ today' = today)
       => localStorage' = localStorage]_vars

\* C12 witness: a second call on a day whose first call stored a record
C12_Witness ==
  /\ lastL.op = "streak" /\ ~lastL.rejected
  /\ lastL.pre.ledger.streak = Ledger(localStorage).streak
  /\ today \in Range(getLearningStreak(localStorage).activityDates)
  /\ Len(getLearningStreak(localStorage).activityDates) >= 2

RECURSIVE DaysEndingAt(_, _)
\* number of consecutive calendar days ending at day d that are all in dates
DaysEndingAt(dates, d) ==
  IF d \in dates THEN 1 + DaysEndingAt(dates, d - 1) ELSE 0

\* C13 as claimed: after a call that added today's date, currentStreak is the
\* number of consecutive recorded days ending today, and longestStreak is the
\* maximum of its previous value and currentStreak
C13_StreakComputation ==
  LET new == getLearningStreak(localStorage)
      old == lastL.pre.ledger.streak
  IN
  (lastL.op = "streak" /\ new # old) =>
    /\ new.currentStreak = DaysEndingAt(Range(new.activityDates), today)
    /\ new.longestStreak =
         (IF old.longestStreak > new.currentStreak
            THEN old.longestStreak ELSE new.currentStreak)

----------------------------------------------------------------------------
(* Properties of the views *)

\* course c1 of the lesson detail view: one section holding both lessons
LessonsCourse ==
  [has |-> TRUE, sections |-> <<[has |-> TRUE, lessons |-> <<"L1", "L2">>]>>]

\* C14 as claimed: a completion toggle issued from the course detail view
\* (ProgressContext) or from the lesson detail view changes the ledger under
\* `course_progress`: the completed count calculateCourseProgress reports for
\* the lesson's course changes with it
C14_SingleLedger ==
  [][(\/ LdToggleLessonCompletion(FALSE)
      \/ \E l \in Lessons : CtxToggleLessonCompletion(l, NoMeta, FALSE, FALSE))
       => calculateCourseProgress(localStorage', LessonsCourse).completedLessons
            # calculateCourseProgress(localStorage, LessonsCourse).completedLessons]_vars

----------------------------------------------------------------------------
(* Properties of the bookmarks *)

\* C15 as claimed: toggleCourseBookmark(courseId) returns the boolean that
\* isCourseBookmarked(courseId) gives right after the call, in the storage
\* utility and in the ProgressContext implementation (writes accepted)
C15_BookmarkToggleReturnsState ==
  /\ (lastL.op = "bookmark" /\ ~lastL.rejected) =>
       lastL.ret = (IF isCourseBookmarked(localStorage, lastL.id)
                      THEN "true" ELSE "false")
  /\ (lastL.op = "ctxBookmark" /\ ~lastL.rejected) =>
       lastL.ret = (IF lastL.id \in Range(ctx.bookmarks)
                      THEN "true" ELSE "false")

----------------------------------------------------------------------------
(* Properties of the import *)

\* the ledger part `key` after an import of sub-key d: the supplied value
\* when d is present, the value before the call when it is absent
ImportedOrKept(d, now, before) == now = (IF d.has THEN d.val ELSE before)

\* C16: importProgressData(data), its writes accepted, replaces each of
\* progress, bookmarks and streak whose sub-key is present in data by the
\* supplied value, and leaves the others as they were, in the store and (for
\* the provider) in memory
C16_ImportAppliesPresentKeys ==
  (lastL.op \in {"import", "ctxImport"} /\ ~lastL.rejected) =>
    LET data == lastL.meta
        now == Ledger(localStorage)
        before == lastL.pre.ledger
    IN
    /\ ImportedOrKept(data.progress, now.progress, before.progress)
    /\ ImportedOrKept(data.bookmarks, now.bookmarks, before.bookmarks)
    /\ ImportedOrKept(data.streak, now.streak, before.streak)
    /\ lastL.op = "ctxImport" =>
         /\ ImportedOrKept(data.progress, ctx.progress, lastL.pre.ctx.progress)
         /\ ImportedOrKept(data.bookmarks, ctx.bookmarks, lastL.pre.ctx.bookmarks)
         /\ ImportedOrKept(data.streak, ctx.learningStreak,
                           lastL.pre.ctx.learningStreak)

\* C16 witness: the provider imported an empty progress map and no bookmarks
\* over a ledger that held a completed lesson and a bookmark
C16_Witness ==
  /\ lastL.op = "ctxImport" /\ ~lastL.rejected
  /\ lastL.meta.progress = Given(EmptyProgress)
  /\ ~lastL.meta.bookmarks.has
  /\ lastL.pre.ledger.progress = OneDone
  /\ lastL.pre.ledger.bookmarks = <<"c1">>
  /\ Ledger(localStorage).progress = EmptyProgress

----------------------------------------------------------------------------
(* Properties of loading *)

\* C17 as claimed: a load of a key that holds a string that is not JSON
\* returns the default ([] for courses, {} for progress, [] for bookmarks)
\* and leaves the key deleted; a step is recognised as the load by the name
\* of the last operation changing to it
C17_CorruptKeyDeleted ==
  [][/\ (localStorage.courses.kind = "text" /\ last.op # "load"
           /\ last'.op = "load")
        => (last'.ret = <<>> /\ localStorage'.courses = NoVal)
     /\ (localStorage.course_progress.kind = "text" /\ lastL.op # "loadProgress"
           /\ lastL'.op = "loadProgress")
        => (lastL'.loaded.progress = EmptyProgress
            /\ localStorage'.course_progress.kind = "none")
     /\ (localStorage.course_bookmarks.kind = "text"
           /\ lastL.op # "loadBookmarks" /\ lastL'.op = "loadBookmarks")
        => (lastL'.loaded.bookmarks = <<>>
            /\ localStorage'.course_bookmarks.kind = "none")]_vars

----------------------------------------------------------------------------
(* Properties of the course form *)

\* the order fields of list s are 0..n-1, each its element's position
Contiguous(s) == \A i \in 1..Len(s) : s[i].order = i - 1

\* C20 as claimed: the order fields of the sections, and of the lessons of
\* each section, are exactly 0..n-1 in list order after every operation
C20_OrdersContiguous ==
  /\ Contiguous(form)
  /\ \A i \in 1..Len(form) : Contiguous(form[i].lessons)

----------------------------------------------------------------------------
(* Properties of the catalog *)

\* the ids of a list of courses, in order
IdsOf(cs) == [k \in 1..Len(cs) |-> cs[k].id]

\* C19 as claimed: a loadCoursesFromStorage() made after any sequence of
\* reducer calls returns the ids of the in-memory catalog, in its order
C19_CrudAutoPersists ==
  (alive /\ last.op = "load") => IdsOf(last.ret) = IdsOf(state)

----------------------------------------------------------------------------
(* Properties of saving *)

----------------------------------------------------------------------------
(* Properties of the sanitizer on its own *)

\* C21 as claimed: stripHtmlTags applied to its own result gives that result
C21_StripIdempotent ==
  strip.done => stripHtmlTags(strip.out) = strip.out

----------------------------------------------------------------------------
(* Properties of reset, export and re-import *)

\* C22 as claimed: with a store whose calls may throw, no operation of the
\* ledger raises an exception: each returns a value
C22_NoFailureReachesCaller ==
  lastL.ret # "raised"

\* the step marks a lesson completed and none of its writes was refused
MarksCompleted ==
  /\ lastL' # lastL
  /\ ~lastL'.rejected
  /\ \/ lastL'.op \in {"markCompleted", "ctxMarkCompleted"}
     \/ lastL'.op = "toggle" /\ lastL'.ret = "true"
     \/ /\ lastL'.op = "ctxToggle"
        /\ LET prev == lastL'.pre.ctx.progress[lastL'.id]
           IN ~(prev.present /\ prev.completed)

StreakHasToday ==
  LET stored == localStorage.learning_streak IN
  /\ stored.kind = "rec"
  /\ stored.val.hasDates
  /\ today \in Range(stored.val.activityDates)
  /\ stored.val.currentStreak >= 1

\* C23 as claimed: in every state of the ledger, after clearAllProgress and
\* after importProgressData of an exported bundle too, when a call marks a
\* lesson completed the stored streak's activityDates contains today and its
\* currentStreak is at least 1 when the call returns
C23_CompletionUpdatesStreak ==
  [][MarksCompleted => StreakHasToday']_vars

WellFormedStreak(stored) ==
  \/ stored.kind = "none"
  \/ /\ stored.kind = "rec"
     /\ stored.val.hasDates
     /\ \A i, j \in 1..Len(stored.val.activityDates) :
          stored.val.activityDates[i] = stored.val.activityDates[j] => i = j
     /\ 0 <= stored.val.currentStreak
     /\ stored.val.currentStreak <= stored.val.longestStreak

\* C30 as claimed: every stored `learning_streak` reached through
\* updateLearningStreak, clearAllProgress and importProgressData of an exported
\* bundle has activityDates, holds no day twice and has
\* 0 <= currentStreak <= longestStreak, and no updateLearningStreak call lowers
\* longestStreak
C30_StreakWellFormed ==
  [][/\ WellFormedStreak(localStorage'.learning_streak)
     /\ (lastL' # lastL /\ lastL'.op \in {"streak", "markCompleted", "ctxToggle"})
          => getLearningStreak(localStorage').longestStreak
               >= getLearningStreak(localStorage).longestStreak]_vars

----------------------------------------------------------------------------
(* Properties of the provider's state against the store *)

CtxOps == {"mount", "ctxToggle", "ctxMarkCompleted", "ctxMarkIncomplete",
           "ctxBookmark", "ctxImport", "ctxClear"}

\* C24 as claimed: after each operation of the ProgressContext the stored
\* `course_progress` and `course_bookmarks` equal its in-memory progress and
\* bookmarks, whatever the storage utilities did in between and whether or
\* not a write was rejected
C24_MemoryMirrorsStorage ==
  lastL.op \in CtxOps =>
    /\ loadProgressFromStorage(localStorage) = ctx.progress
    /\ loadBookmarkedCourses(localStorage) = ctx.bookmarks

\* C25 as claimed: two tabs hold their own provider state loaded from one
\* store; when tab B toggles a lesson and the write is accepted, the stored map
\* is tab B's in-memory map: every other lesson is stored as tab B held it,
\* whatever tab A had written (the last write wins, nothing is merged)
C25_LastWriteWins ==
  [][(lastL' # lastL /\ lastL'.op = "tabBToggle" /\ ~lastL'.rejected) =>
       /\ loadProgressFromStorage(localStorage') = ctxB'.progress
       /\ \A x \in Lessons \ {lastL'.id} :
            loadProgressFromStorage(localStorage')[x] = ctxB.progress[x]]_vars

\* tab A had stored L1 as completed and still holds it; tab B toggled L2, and
\* L1 is gone from the store
C25_Witness ==
  /\ lastL.op = "tabBToggle" /\ lastL.id = "L2" /\ ~lastL.rejected
  /\ IsCompleted(lastL.pre.ledger.progress, "L1")
  /\ IsCompleted(ctx.progress, "L1")
  /\ ~loadProgressFromStorage(localStorage)["L1"].present
  /\ IsCompleted(loadProgressFromStorage(localStorage), "L2")

----------------------------------------------------------------------------
(* Properties of the timers *)

\* C26 as claimed: no timer callback (auto-save, reset of the saving
\* indicator, search debounce, loading delay) runs after its view was torn
\* down, and no debounce timer older than the last input or clearSearch
\* applies its value
C26_NoOrphanedTimer ==
  ~view.orphan /\ ~view.stale

----------------------------------------------------------------------------
(* Properties of the completion statistics *)

\* the percentages calculateCourseProgress gives for the courses of the call
LedgerPercentages ==
  [i \in 1..Len(stats.courses) |->
     progressOf(stats.progress, stats.courses[i]).completionPercentage]

RECURSIVE SumOf(_, _)
SumOf(s, i) == IF i > Len(s) THEN 0 ELSE s[i] + SumOf(s, i + 1)

\* C27 as claimed: the completionPercentage the completion statistics give for
\* a course is the one calculateCourseProgress gives for it, averageCompletion
\* is the rounded mean of these percentages, completedCourses counts the
\* courses at exactly 100 and inProgressCourses those strictly between 0 and 100
C27_StatsAgreeWithLedger ==
  stats.done =>
    LET n == Len(stats.courses)
        pct == LedgerPercentages
    IN
    /\ \A i \in 1..n : stats.ret.courseProgress[i].completionPercentage = pct[i]
    /\ stats.ret.averageCompletion
         = (IF n = 0 THEN 0 ELSE MathRound(SumOf(pct, 1), n))
    /\ stats.ret.completedCourses = Cardinality({i \in 1..n : pct[i] = 100})
    /\ stats.ret.inProgressCourses
         = Cardinality({i \in 1..n : pct[i] > 0 /\ pct[i] < 100})

\* statistics of two courses, one finished, one at two lessons of three
C27_Witness ==
  /\ stats.done
  /\ stats.ret.completedCourses = 1
  /\ stats.ret.inProgressCourses = 1
  /\ \E i \in 1..Len(stats.courses) :
       stats.ret.courseProgress[i].completionPercentage = 67

====
